---------------------------- MODULE Spec2Model ----------------------------
(***************************************************************************)
(* Content-credibility analyser: the orchestrator (ContentAnalyzer), the   *)
(* detectors it runs and the CredibilityScorer.                            *)
(*                                                                         *)
(* Numbers.  Every quantity the code keeps as a float in [0,1] (an issue's *)
(* confidence, a level, an accuracy) is kept here as an integer number of  *)
(* 1/Scale, and the running score as an integer number of 1/Scale points,  *)
(* so the arithmetic of the code is exact.  Python's round() of a binary   *)
(* float that sits on a decimal tie goes to either neighbour, depending on *)
(* the float's last bit: RoundDiv takes the direction as an argument and   *)
(* the actions draw it.                                                    *)
(*                                                                         *)
(* A summary string is kept as the record of its parts.                    *)
(***************************************************************************)
EXTENDS Integers, Sequences, FiniteSets, TLC

VARIABLES
    pc,             \* position of the call being modelled
    text,           \* the text under analysis (its matches, see Texts)
    options,        \* the options argument of analyze_text
    results,        \* the results dictionary analyze_text builds
    score_results,  \* what calculate_score returned
    config          \* the FactChecker's claims database and API key; None
                    \* where the outcome of each lookup is given with the text

vars == <<pc, text, options, results, score_results, config>>

---------------------------------------------------------------------------
(* Fixed point                                                             *)

Scale == 3 * 100

\* n hundredths, as a number of 1/Scale
Hundredths(n) == n * (Scale \div 100)

None == "None"

\* overall_factual_accuracy = None
NoAccuracy == -1

Min(a, b) == IF a <= b THEN a ELSE b
Max(a, b) == IF a >= b THEN a ELSE b

\* round(num/den) to an integer; on an exact tie `up` decides
RoundDiv(num, den, up) ==
    LET q == num \div den
        r == num % den
    IN  IF 2 * r > den THEN q + 1
        ELSE IF 2 * r < den THEN q
        ELSE IF up THEN q + 1 ELSE q

\* the directions round() can take: both at a tie, and otherwise the flag is
\* not looked at
Directions(num, den) ==
    IF 2 * (num % den) = den THEN BOOLEAN ELSE {FALSE}

---------------------------------------------------------------------------
(* CredibilityScorer                                                       *)

issue_weights ==
    [ loaded_language         |-> 3,
      generalization          |-> 4,
      exaggeration            |-> 3,
      subjective_language     |-> 2,
      political_bias          |-> 3,
      emotional_trigger       |-> 3,
      urgency_manipulation    |-> 4,
      fear_manipulation       |-> 5,
      typography_manipulation |-> 2,
      false_claim             |-> 10,
      external_fact_check     |-> 8,
      uncited_statistic       |-> 5,
      clickbait               |-> 5,
      propaganda_technique    |-> 6,
      sensationalist_language |-> 4,
      excessive_hedging       |-> 2,
      excessive_passive_voice |-> 1 ]

\* self.issue_weights.get(issue_type, 2)
DefaultWeight == 2

WeightOfDefaultZero(type) ==
    IF type \in DOMAIN issue_weights THEN issue_weights[type] ELSE 0

WeightOf(type) ==
    IF type \in DOMAIN issue_weights THEN issue_weights[type] ELSE DefaultWeight

\* metadata_factors, in tenths
metadata_factors ==
    [ bias_level |-> 2, emotional_manipulation |-> 2,
      factual_accuracy |-> 4, linguistic_patterns |-> 2 ]

\* penalty = weight * confidence
Penalty(issue) == WeightOf(issue.type) * issue.confidence

\* position of `type` in the issue_penalties dictionary (0: not a key)
PenaltyIndex(pen, type) ==
    IF \E i \in 1..Len(pen) : pen[i].type = type
    THEN CHOOSE i \in 1..Len(pen) : pen[i].type = type
    ELSE 0

AddPenaltyOverwrite(pen, issue) ==
    LET i == PenaltyIndex(pen, issue.type)
    IN  IF i = 0
        THEN Append(pen, [type |-> issue.type, total |-> Penalty(issue)])
        ELSE [pen EXCEPT ![i].total = Penalty(issue)]

\* issue_penalties[issue_type] += penalty, the key created at 0 when new:
\* a dictionary keeps its keys in insertion order
AddPenalty(pen, issue) ==
    LET i == PenaltyIndex(pen, issue.type)
    IN  IF i = 0
        THEN Append(pen, [type |-> issue.type, total |-> Penalty(issue)])
        ELSE [pen EXCEPT ![i].total = @ + Penalty(issue)]

\* the loop over the issues: the dictionary after the first k issues
RECURSIVE IssuePenalties(_, _)
IssuePenalties(issues, k) ==
    IF k = 0 THEN << >>
    ELSE AddPenalty(IssuePenalties(issues, k - 1), issues[k])

\* the loop over the issues: what it has subtracted after the first k issues
RECURSIVE PenaltySum(_, _)
PenaltySum(issues, k) ==
    IF k = 0 THEN 0 ELSE PenaltySum(issues, k - 1) + Penalty(issues[k])

\* metadata.get(key, {}).get(field, default)
MetaGet(metadata, key, field, default) ==
    IF key \in DOMAIN metadata /\ field \in DOMAIN metadata[key]
    THEN metadata[key][field]
    ELSE default

BiasLevel(metadata) == MetaGet(metadata, "bias", "overall_bias_level", 0)
EmotionalScore(metadata) ==
    MetaGet(metadata, "emotional_manipulation", "emotional_manipulation_score", 0)
FactualAccuracy(metadata) ==
    MetaGet(metadata, "fact_checking", "overall_factual_accuracy", NoAccuracy)
PatternLevelSum(metadata) ==
      MetaGet(metadata, "linguistic_patterns", "clickbait_level", 0)
    + MetaGet(metadata, "linguistic_patterns", "propaganda_level", 0)
    + MetaGet(metadata, "linguistic_patterns", "sensationalism_level", 0)

\* level * 15 * factor
BiasPenalty(metadata) ==
    (BiasLevel(metadata) * 15 * metadata_factors.bias_level) \div 10
EmotionalPenalty(metadata) ==
    (EmotionalScore(metadata) * 15 * metadata_factors.emotional_manipulation) \div 10
\* (clickbait + propaganda + sensationalism) / 3 * 15 * factor
PatternPenalty(metadata) ==
    (PatternLevelSum(metadata) * 15 * metadata_factors.linguistic_patterns) \div (3 * 10)

FactualBonusAlways(metadata) ==
    LET acc == FactualAccuracy(metadata)
    IN  ((IF acc = NoAccuracy THEN Scale ELSE acc) * 20
            * metadata_factors.factual_accuracy) \div 10

\* accuracy * 20 * factor, added only when the accuracy is not None
FactualBonus(metadata) ==
    IF FactualAccuracy(metadata) # NoAccuracy
    THEN (FactualAccuracy(metadata) * 20 * metadata_factors.factual_accuracy) \div 10
    ELSE 0

\* base_score after the loop and the four metadata adjustments
BaseScore(issues, metadata) ==
    100 * Scale - PenaltySum(issues, Len(issues))
        - BiasPenalty(metadata) - EmotionalPenalty(metadata)
        + FactualBonus(metadata) - PatternPenalty(metadata)

FinalScoreUnclamped(issues, metadata) == BaseScore(issues, metadata)

\* final_score = max(0, min(100, base_score))
FinalScore(issues, metadata) ==
    Max(0, Min(100 * Scale, BaseScore(issues, metadata)))

SignalsCountNoAccuracy(issues, metadata) == Len(issues)

\* signals_count = len(issues) + (1 if factual_accuracy is not None else 0)
SignalsCount(issues, metadata) ==
    Len(issues) + (IF FactualAccuracy(metadata) # NoAccuracy THEN 1 ELSE 0)

\* min(0.95, 0.5 + (signals_count / 20) * 0.45), as a fraction over 2000
ConfidenceNum(n) == Min(95 * 20, 50 * 20 + 45 * n)
ConfidenceDen == 20

\* round(confidence, 2)
RoundedConfidence(n, up) ==
    Hundredths(RoundDiv(ConfidenceNum(n), ConfidenceDen, up))


\* if score >= 90 ... elif score >= 75 ... (score in 1/Scale points)
CredibilityCategory(score) ==
    IF score >= 90 * Scale THEN "very high"
    ELSE IF score >= 75 * Scale THEN "high"
    ELSE IF score >= 60 * Scale THEN "moderate"
    ELSE IF score >= 40 * Scale THEN "low"
    ELSE "very low"

\* the closing sentence of the summary
Recommendation(score) ==
    IF score >= 75 * Scale THEN "generally reliable"
    ELSE IF score >= 60 * Scale THEN "verify key claims"
    ELSE IF score >= 40 * Scale THEN "approach with skepticism"
    ELSE "significant credibility issues"

get_credibility_badge(score) ==
    IF score >= 90 * Scale THEN "Highly Credible"
    ELSE IF score >= 75 * Scale THEN "Credible"
    ELSE IF score >= 60 * Scale THEN "Somewhat Credible"
    ELSE IF score >= 40 * Scale THEN "Low Credibility"
    ELSE "Very Low Credibility"

\* sorted(..., reverse=True) is stable: an item goes after every item whose
\* total is at least its own
InsertDescUnstable(sorted, item) ==
    LET before == {i \in 1..Len(sorted) : sorted[i].total > item.total}
        n == Cardinality(before)
    IN  SubSeq(sorted, 1, n) \o <<item>> \o SubSeq(sorted, n + 1, Len(sorted))

InsertDesc(sorted, item) ==
    LET before == {i \in 1..Len(sorted) : sorted[i].total >= item.total}
        n == Cardinality(before)
    IN  SubSeq(sorted, 1, n) \o <<item>> \o SubSeq(sorted, n + 1, Len(sorted))

\* sorted(issue_penalties.items(), key=lambda x: x[1], reverse=True)
RECURSIVE SortedIssues(_, _)
SortedIssues(pen, k) ==
    IF k = 0 THEN << >>
    ELSE InsertDesc(SortedIssues(pen, k - 1), pen[k])

\* the issue types of sorted_issues[:3]
MajorIssues(pen) ==
    LET sorted == SortedIssues(pen, Len(pen))
    IN  [i \in 1..Min(3, Len(sorted)) |-> sorted[i].type]

\* _generate_summary(score, issue_penalties, metadata, sources); rounded is
\* round(score), which the first sentence prints
GenerateSummary(score, rounded, pen, metadata) ==
    LET accuracy == FactualAccuracy(metadata)
        detected == MetaGet(metadata, "fact_checking", "claims_detected", 0)
        leaning  == MetaGet(metadata, "bias", "political_leaning", None)
        bias     == MetaGet(metadata, "bias", "overall_bias_level", 0)
        emotion  == EmotionalScore(metadata)
        dominant == MetaGet(metadata, "emotional_manipulation", "dominant_emotion", None)
    IN  [ category |-> CredibilityCategory(score),
          score    |-> rounded,
          major    |-> MajorIssues(pen),
          claims   |-> IF accuracy # NoAccuracy /\ detected > 0
                       THEN << MetaGet(metadata, "fact_checking", "claims_verified", 0),
                               MetaGet(metadata, "fact_checking", "claims_refuted", 0),
                               detected >>
                       ELSE << >>,
          leaning  |-> IF leaning # None /\ bias * 10 > 3 * Scale
                       THEN leaning ELSE None,
          emotion  |-> IF emotion * 10 > 4 * Scale /\ dominant # None
                       THEN dominant ELSE None,
          recommendation |-> Recommendation(score) ]

\* calculate_score(analysis_results); upS and upC are the directions round()
\* takes if the score, the confidence, sits on a tie
\* where round(final_score) and round(confidence, 2) stand at a tie
ScoreDirections(analysis_results) ==
    Directions(FinalScore(analysis_results.issues, analysis_results.metadata),
               Scale)

ConfidenceDirections(analysis_results) ==
    Directions(ConfidenceNum(SignalsCount(analysis_results.issues,
                                          analysis_results.metadata)),
               ConfidenceDen)

CalculateScore(analysis_results, upS, upC) ==
    LET issues   == analysis_results.issues
        metadata == analysis_results.metadata
        pen      == IssuePenalties(issues, Len(issues))
        final    == FinalScore(issues, metadata)
        rounded  == RoundDiv(final, Scale, upS)
    IN  [ score      |-> rounded,
          confidence |-> RoundedConfidence(SignalsCount(issues, metadata), upC),
          summary    |-> GenerateSummary(final, rounded, pen, metadata),
          issue_penalties |-> pen ]

---------------------------------------------------------------------------
(* Inputs of calculate_score called on its own                             *)

\* issues per short list, and how often a short list is repeated to make a
\* long one
MaxIssues == 2
LongRep == 10
\* issues per list of the lists that rank issue types
MaxRanked == 4

Issue(type, description, confidence) ==
    [type |-> type, description |-> description, confidence |-> confidence]

\* two pairs of types of equal weight, the heaviest type, and a type that
\* has no configured weight
ScoreTypes ==
    {"loaded_language", "exaggeration", "generalization", "false_claim",
     "unlisted_type"}

ScoreIssues ==
    {Issue(t, "given", c) : t \in ScoreTypes, c \in {Scale \div 2, Scale}}
    \cup {Issue("exaggeration", "given", 0)}

RankedIssues ==
    {Issue(t, "given", c) : t \in ScoreTypes \ {"false_claim"},
                            c \in {Scale \div 2, Scale}}

\* list, k times over
Repeat(list, k) ==
    [i \in 1..(k * Len(list)) |-> list[((i - 1) % Len(list)) + 1]]

BiasMetadata(types, leaning, confidence, level) ==
    [ bias_types_detected |-> types,
      political_leaning |-> leaning,
      political_leaning_confidence |-> confidence,
      overall_bias_level |-> level ]

EmotionMetadata(types, dominant, score, intensity) ==
    [ emotion_types_detected |-> types,
      dominant_emotion |-> dominant,
      emotional_manipulation_score |-> score,
      emotional_intensity |-> intensity ]

FactMetadata(detected, verified, refuted, accuracy) ==
    [ claims_detected |-> detected,
      claims_verified |-> verified,
      claims_refuted |-> refuted,
      overall_factual_accuracy |-> accuracy ]

PatternMetadata(patterns, clickbait, propaganda, sensationalism, hedging) ==
    [ patterns_detected |-> patterns,
      clickbait_level |-> clickbait,
      propaganda_level |-> propaganda,
      sensationalism_level |-> sensationalism,
      hedging_level |-> hedging ]

MetadataOf(bias, emotion, fact, pattern) ==
    [ k \in {"bias", "emotional_manipulation", "fact_checking",
             "linguistic_patterns"} |->
        CASE k = "bias" -> bias
          [] k = "emotional_manipulation" -> emotion
          [] k = "fact_checking" -> fact
          [] k = "linguistic_patterns" -> pattern ]

ScoreMetadata ==
    { << >> } \cup
    { MetadataOf(b, e, f, p) :
        b \in { BiasMetadata(<< >>, None, 0, 0),
                BiasMetadata(<<"political_bias">>, "left", Hundredths(40), Scale \div 10),
                BiasMetadata(<<"political_bias">>, "left", Hundredths(80), Scale) },
        e \in { EmotionMetadata(<< >>, None, 0, 0),
                EmotionMetadata(<<"fear">>, "fear", Scale, Scale) },
        f \in { FactMetadata(0, 0, 0, NoAccuracy),
                FactMetadata(1, 0, 1, 0),
                FactMetadata(1, 1, 0, Scale) },
        p \in { PatternMetadata(<< >>, 0, 0, 0, 0),
                PatternMetadata(<<"clickbait">>, Scale, Scale \div 2, Scale \div 6, Scale) } }

AnalysisResults(issues, metadata) ==
    [issues |-> issues, metadata |-> metadata, sources |-> << >>]

NoText == [words |-> 0, count |-> << >>, claims |-> << >>]

InitScore ==
    /\ pc = "calculate_score"
    /\ text = NoText
    /\ options = [given |-> FALSE, flags |-> << >>]
    /\ \/ \E n \in 0..MaxIssues : \E l \in [1..n -> ScoreIssues] :
             \E k \in {1, LongRep} : \E m \in ScoreMetadata :
                results = AnalysisResults(Repeat(l, k), m)
       \/ \E n \in 0..MaxRanked : \E l \in [1..n -> RankedIssues] :
             results = AnalysisResults(l, << >>)
    /\ score_results = None
    /\ config = None

\* CredibilityScorer.calculate_score, called on analysis_results = results
CallCalculateScore ==
    /\ pc = "calculate_score"
    /\ \E upS \in ScoreDirections(results),
          upC \in ConfidenceDirections(results) :
          score_results' = CalculateScore(results, upS, upC)
    /\ pc' = "returned"
    /\ UNCHANGED <<text, options, results, config>>

NextScore == CallCalculateScore

SpecScore == InitScore /\ [][NextScore]_vars

---------------------------------------------------------------------------
(* Texts                                                                   *)
(*                                                                         *)
(* A text is kept as what the detectors find in it: its number of words    *)
(* (len(text.split())), for every pattern table the number of matches of   *)
(* its patterns, and the factual claims _extract_claims returns, in order, *)
(* each with the answer its lookups get.  The i-th match of a table stands *)
(* for the span of that match.                                             *)

BiasKinds ==
    <<"loaded_language", "generalization", "exaggeration", "subjective_qualifiers">>
PoliticalKinds == <<"left_leaning", "right_leaning">>
\* the keys of emotional_triggers, in the order the dictionary lists them
EmotionKinds == <<"fear", "anger", "joy", "sadness">>
ManipulationKinds == <<"urgency_patterns", "fear_patterns", "all_caps", "exclamations">>
\* the keys of propaganda_techniques, in the order the dictionary lists them
TechniqueKinds ==
    <<"name_calling", "glittering_generalities", "bandwagon", "testimonial",
      "plain_folks", "card_stacking", "transfer">>
PatternKinds == <<"clickbait", "sensationalist", "hedging", "passive">>

Range(seq) == {seq[i] : i \in 1..Len(seq)}

MatchKinds ==
    BiasKinds \o PoliticalKinds \o EmotionKinds \o ManipulationKinds
        \o TechniqueKinds \o PatternKinds

\* a claim and how its lookups end: matched in the local database
\* (unverified or verified entry, with the similarity), matched by the
\* external service (unverified or verified, with its confidence), an
\* uncited statistic the external service does not know, or none of these
ClaimKinds ==
    << [lookup |-> "local_false",       confidence |-> Hundredths(75)],
       [lookup |-> "local_false",       confidence |-> Scale],
       [lookup |-> "local_true",        confidence |-> Scale],
       [lookup |-> "external_false",    confidence |-> Hundredths(90)],
       [lookup |-> "external_true",     confidence |-> Hundredths(80)],
       [lookup |-> "uncited_statistic", confidence |-> 0],
       [lookup |-> "unflagged",         confidence |-> 0] >>

\* the matches of table `kind`: <<kind, 1>>, ..., <<kind, n>>
Matches(txt, kind) == [i \in 1..txt.count[kind] |-> <<kind, i>>]

\* [[s, e] for s, e, _ in matches]
Spans(matches) == matches

\* len(text.split())
WordCount(txt) == txt.words

SpannedIssue(type, description, confidence, spans) ==
    [type |-> type, description |-> description, confidence |-> confidence,
     spans |-> spans]

\* one issue per match
RECURSIVE IssuePerMatch(_, _, _, _)
IssuePerMatch(type, confidence, matches, k) ==
    IF k = 0 THEN << >>
    ELSE Append(IssuePerMatch(type, confidence, matches, k - 1),
                SpannedIssue(type, type, confidence, <<matches[k]>>))

\* a fraction num/den as a number of 1/Scale
ToScale(q) == (q[1] * Scale) \div q[2]

\* stands for a level the code could not compute: x / (0 / 100) raises
ZeroDivisionError == 0 - 1

DividesAlways(words) == TRUE

\* `... if text_length > 0 else 0`: the code divides by text_length / 100
\* only under this condition
Divides(words) == words > 0

LevelInverted(count, words, divisor) ==
    IF Divides(words)
    THEN IF words = 0 THEN ZeroDivisionError
         ELSE IF count = 0 THEN 0
         ELSE Min(Scale, (Scale * words) \div (100 * divisor * count))
    ELSE 0

\* min(1.0, (count / (words / 100)) / divisor)
Level(count, words, divisor) ==
    IF Divides(words)
    THEN IF words = 0 THEN ZeroDivisionError
         ELSE Min(Scale, (Scale * count * 100) \div (divisor * words))
    ELSE 0

\* round(min(1.0, (count / (words / 100)) / divisor), 2)
RoundedLevel(count, words, divisor, up) ==
    IF Divides(words)
    THEN IF words = 0 THEN ZeroDivisionError
         ELSE Hundredths(RoundDiv(Min(divisor * words, count * 100) * 100,
                                  divisor * words, up))
    ELSE 0

---------------------------------------------------------------------------
(* BiasDetector                                                            *)

PoliticalResult(leaning, confidence, spans) ==
    [leaning |-> leaning, confidence |-> confidence, spans |-> spans]

OverwhelmsOrEquals(a, b) == a >= b * 2

\* left_count > right_count * 2
Overwhelms(a, b) == a > b * 2

SufficientFromTwo(total_count) == total_count >= 2

\* total_count >= 3: enough political terms to make a determination
Sufficient(total_count) == total_count >= 3

\* min(0.9, 0.5 + (a - b) / total * 0.5), as a fraction
StrongConfidence(a, b, total) ==
    IF 10 * (total + (a - b)) <= 9 * 2 * total
    THEN <<total + (a - b), 2 * total>>
    ELSE <<9, 10>>

\* abs(left_count - right_count) / total_count > 0.3
SignificantDifference(a, b, total) ==
    10 * (IF a >= b THEN a - b ELSE b - a) > 3 * total

\* _detect_political_bias(text); the confidence is a fraction <<num, den>>
DetectPoliticalBias(txt) ==
    LET left_matches  == Matches(txt, "left_leaning")
        right_matches == Matches(txt, "right_leaning")
        left_count    == Len(left_matches)
        right_count   == Len(right_matches)
        total_count   == left_count + right_count
    IN  IF total_count > 0
        THEN IF Sufficient(total_count)
             THEN IF Overwhelms(left_count, right_count)
                  THEN PoliticalResult("left",
                          StrongConfidence(left_count, right_count, total_count),
                          Spans(left_matches))
                  ELSE IF Overwhelms(right_count, left_count)
                  THEN PoliticalResult("right",
                          StrongConfidence(right_count, left_count, total_count),
                          Spans(right_matches))
                  ELSE IF SignificantDifference(left_count, right_count, total_count)
                  THEN IF left_count > right_count
                       THEN PoliticalResult("center-left", <<6, 10>>, Spans(left_matches))
                       ELSE PoliticalResult("center-right", <<6, 10>>, Spans(right_matches))
                  ELSE PoliticalResult("center", <<7, 10>>,
                                       Spans(left_matches \o right_matches))
             ELSE IF left_count > right_count
                  THEN PoliticalResult("slight-left", <<4, 10>>, Spans(left_matches))
                  ELSE IF right_count > left_count
                  THEN PoliticalResult("slight-right", <<4, 10>>, Spans(right_matches))
                  ELSE PoliticalResult("neutral", <<0, 1>>, << >>)
        ELSE PoliticalResult("neutral", <<0, 1>>, << >>)

LeaningDetectedAlways(political_bias) == TRUE

\* political_bias["leaning"] != "neutral"
LeaningDetected(political_bias) == political_bias.leaning # "neutral"

\* detect_bias(text); up: the direction round() takes on a tie
DetectBias(txt, up) ==
    LET loaded == IssuePerMatch("loaded_language", Hundredths(80),
                      Matches(txt, "loaded_language"), txt.count["loaded_language"])
        general == IssuePerMatch("generalization", Hundredths(70),
                      Matches(txt, "generalization"), txt.count["generalization"])
        exagg == IssuePerMatch("exaggeration", Hundredths(75),
                      Matches(txt, "exaggeration"), txt.count["exaggeration"])
        subjective == IssuePerMatch("subjective_language", Hundredths(65),
                      Matches(txt, "subjective_qualifiers"),
                      txt.count["subjective_qualifiers"])
        political_bias == DetectPoliticalBias(txt)
        political == LeaningDetected(political_bias)
        issues == loaded \o general \o exagg \o subjective \o
                  (IF political
                   THEN << SpannedIssue("political_bias", political_bias.leaning,
                                        ToScale(political_bias.confidence),
                                        political_bias.spans) >>
                   ELSE << >>)
        types == (IF loaded # << >> THEN <<"loaded_language">> ELSE << >>) \o
                 (IF general # << >> THEN <<"generalizations">> ELSE << >>) \o
                 (IF exagg # << >> THEN <<"exaggerations">> ELSE << >>) \o
                 (IF subjective # << >> THEN <<"subjective_language">> ELSE << >>) \o
                 (IF political THEN <<"political_bias">> ELSE << >>)
    IN  [ issues |-> issues,
          metadata |->
            BiasMetadata(types,
                IF political THEN political_bias.leaning ELSE None,
                IF political THEN ToScale(political_bias.confidence) ELSE 0,
                RoundedLevel(Len(issues), WordCount(txt), 5, up)) ]

---------------------------------------------------------------------------
(* EmotionAnalyzer                                                         *)

\* the emotional_trigger issues, one per emotion of the first k with a match
RECURSIVE TriggerIssues(_, _)
TriggerIssues(txt, k) ==
    IF k = 0 THEN << >>
    ELSE TriggerIssues(txt, k - 1) \o
         (IF txt.count[EmotionKinds[k]] > 0
          THEN << SpannedIssue("emotional_trigger", EmotionKinds[k], Hundredths(75),
                               Spans(Matches(txt, EmotionKinds[k]))) >>
          ELSE << >>)

\* the keys of emotion_counts, in insertion order
DetectedEmotions(txt) ==
    SelectSeq(EmotionKinds, LAMBDA e : txt.count[e] > 0)

DominantEmotionLast(txt) ==
    LET detected == DetectedEmotions(txt)
    IN  IF detected = << >> THEN None
        ELSE detected[CHOOSE i \in 1..Len(detected) :
                /\ \A j \in 1..Len(detected) :
                      txt.count[detected[j]] <= txt.count[detected[i]]
                /\ \A j \in (i + 1)..Len(detected) :
                      txt.count[detected[j]] < txt.count[detected[i]]]

\* max(emotion_counts.items(), key=lambda x: x[1])[0]: the first item of
\* the largest count
DominantEmotion(txt) ==
    LET detected == DetectedEmotions(txt)
    IN  IF detected = << >> THEN None
        ELSE detected[CHOOSE i \in 1..Len(detected) :
                /\ \A j \in 1..Len(detected) :
                      txt.count[detected[j]] <= txt.count[detected[i]]
                /\ \A j \in 1..(i - 1) :
                      txt.count[detected[j]] < txt.count[detected[i]]]

\* sum(emotion_counts.values())
RECURSIVE TotalTriggers(_, _)
TotalTriggers(txt, k) ==
    IF k = 0 THEN 0 ELSE TotalTriggers(txt, k - 1) + txt.count[EmotionKinds[k]]

EmotionalIntensityUncapped(triggers, variety, words, up) ==
    LET den == 40 * (IF Divides(words) THEN words ELSE 1)
        num == (IF Divides(words) THEN 560 * triggers ELSE 0)
                  + 3 * variety * (IF Divides(words) THEN words ELSE 1)
    IN  IF Divides(words) /\ words = 0 THEN ZeroDivisionError
        ELSE Hundredths(RoundDiv(num * 100, den, up))

\* round(min(1.0, (density / 5.0) * 0.7 + (variety / 4.0) * 0.3), 2),
\* density = triggers / (words / 100)
EmotionalIntensity(triggers, variety, words, up) ==
    LET den == 40 * (IF Divides(words) THEN words ELSE 1)
        num == (IF Divides(words) THEN 560 * triggers ELSE 0)
                  + 3 * variety * (IF Divides(words) THEN words ELSE 1)
    IN  IF Divides(words) /\ words = 0 THEN ZeroDivisionError
        ELSE Hundredths(RoundDiv(Min(den, num) * 100, den, up))

\* detect_manipulation(text)
DetectManipulation(txt, up) ==
    LET triggers == TriggerIssues(txt, Len(EmotionKinds))
        urgency  == txt.count["urgency_patterns"] > 0
        fear     == txt.count["fear_patterns"] > 0
        types == DetectedEmotions(txt) \o
                 (IF urgency THEN <<"urgency">> ELSE << >>) \o
                 (IF fear /\ txt.count["fear"] = 0 THEN <<"fear">> ELSE << >>)
        issues == triggers \o
            (IF urgency
             THEN << SpannedIssue("urgency_manipulation", "urgency", Hundredths(80),
                                  Spans(Matches(txt, "urgency_patterns"))) >>
             ELSE << >>) \o
            (IF fear
             THEN << SpannedIssue("fear_manipulation", "fear", Hundredths(85),
                                  Spans(Matches(txt, "fear_patterns"))) >>
             ELSE << >>) \o
            (IF txt.count["all_caps"] > 0
             THEN << SpannedIssue("typography_manipulation", "all caps", Hundredths(70),
                                  Spans(Matches(txt, "all_caps"))) >>
             ELSE << >>) \o
            (IF txt.count["exclamations"] > 0
             THEN << SpannedIssue("typography_manipulation", "exclamation marks",
                                  Hundredths(75),
                                  Spans(Matches(txt, "exclamations"))) >>
             ELSE << >>)
    IN  [ issues |-> issues,
          metadata |->
            EmotionMetadata(types, DominantEmotion(txt),
                RoundedLevel(Len(issues), WordCount(txt), 3, up),
                EmotionalIntensity(TotalTriggers(txt, Len(EmotionKinds)),
                                   Len(types), WordCount(txt), up)) ]

---------------------------------------------------------------------------
(* FactChecker                                                             *)

Source(claim, verified) == [claim |-> claim, verified |-> verified]

\* the body of the loop over the claims, for the k-th claim: what it adds
\* to the issues
ClaimIssues(txt, k) ==
    LET claim == txt.claims[k]
    IN  CASE claim.lookup = "local_false" ->
                << SpannedIssue("false_claim", "false claim", claim.confidence,
                                << <<"claim", k>> >>) >>
          [] claim.lookup = "external_false" ->
                << SpannedIssue("external_fact_check", "disputed claim",
                                claim.confidence, << <<"claim", k>> >>) >>
          [] claim.lookup = "uncited_statistic" ->
                << SpannedIssue("uncited_statistic", "uncited statistic",
                                Hundredths(70), << <<"claim", k>> >>) >>
          [] OTHER -> << >>

ClaimSourcesRefuted(txt, k) ==
    LET claim == txt.claims[k]
    IN  CASE claim.lookup \in {"local_false", "external_false"} ->
                << Source(<<"claim", k>>, FALSE) >>
          [] OTHER -> << >>

\* ... and to the sources
ClaimSources(txt, k) ==
    LET claim == txt.claims[k]
    IN  CASE claim.lookup \in {"local_false", "external_false"} ->
                << Source(<<"claim", k>>, FALSE) >>
          [] claim.lookup \in {"local_true", "external_true"} ->
                << Source(<<"claim", k>>, TRUE) >>
          [] OTHER -> << >>

RECURSIVE FactIssues(_, _)
FactIssues(txt, k) ==
    IF k = 0 THEN << >> ELSE FactIssues(txt, k - 1) \o ClaimIssues(txt, k)

RECURSIVE FactSources(_, _)
FactSources(txt, k) ==
    IF k = 0 THEN << >> ELSE FactSources(txt, k - 1) \o ClaimSources(txt, k)

Verified(txt) ==
    Cardinality({k \in 1..Len(txt.claims) :
                    txt.claims[k].lookup \in {"local_true", "external_true"}})

Refuted(txt) ==
    Cardinality({k \in 1..Len(txt.claims) :
                    txt.claims[k].lookup \in {"local_false", "external_false"}})

AccuracyTruncated(verified, detected, up) ==
    Hundredths((verified * 100) \div detected)

\* round(claims_verified / claims_detected, 2)
Accuracy(verified, detected, up) ==
    Hundredths(RoundDiv(verified * 100, detected, up))

\* check_facts(text)
CheckFacts(txt, up) ==
    LET detected == Len(txt.claims)
    IN  IF detected = 0
        THEN [ issues |-> << >>, sources |-> << >>,
               metadata |-> FactMetadata(0, 0, 0, NoAccuracy) ]
        ELSE [ issues |-> FactIssues(txt, detected),
               sources |-> FactSources(txt, detected),
               metadata |->
                 FactMetadata(detected, Verified(txt), Refuted(txt),
                     Accuracy(Verified(txt), detected, up)) ]

---------------------------------------------------------------------------
(* FactChecker._extract_claims                                             *)
(*                                                                         *)
(* A candidate is a match of one of the claim patterns: the offsets of the *)
(* match and the length of its text once stripped of surrounding white     *)
(* space.  The candidates of a text are listed pattern by pattern, as the  *)
(* loops of the code find them.                                            *)

Candidate(start, end, len) == [start |-> start, end |-> end, len |-> len]

\* len(claim_text) > 10
LongEnough(claim) == claim.len > 10

\* claims.append(...) for the candidates that pass the filter
Candidates(found) == SelectSeq(found, LongEnough)

\* claims.sort(key=lambda x: x["start"]): stable
InsertByStart(sorted, claim) ==
    LET after == {i \in 1..Len(sorted) : sorted[i].start > claim.start}
        at    == IF after = {} THEN Len(sorted) + 1
                 ELSE CHOOSE i \in after : \A j \in after : i <= j
    IN  SubSeq(sorted, 1, at - 1) \o <<claim>> \o SubSeq(sorted, at, Len(sorted))

RECURSIVE SortByStart(_, _)
SortByStart(claims, k) ==
    IF k = 0 THEN << >>
    ELSE InsertByStart(SortByStart(claims, k - 1), claims[k])

ClearOfBefore(claim, last) == claim.end <= last.start

ClearOfAlways(claim, last) == TRUE

\* claim["start"] >= deduplicated_claims[-1]["end"]
ClearOf(claim, last) == claim.start >= last.end

\* the loop over the sorted claims, after k of them
RECURSIVE Deduplicate(_, _)
Deduplicate(sorted, k) ==
    IF k = 0 THEN << >>
    ELSE LET deduplicated_claims == Deduplicate(sorted, k - 1)
             claim == sorted[k]
             n     == Len(deduplicated_claims)
         IN  IF n = 0 \/ ClearOf(claim, deduplicated_claims[n])
             THEN Append(deduplicated_claims, claim)
             ELSE IF claim.end - claim.start
                        > deduplicated_claims[n].end - deduplicated_claims[n].start
             THEN [deduplicated_claims EXCEPT ![n] = claim]
             ELSE deduplicated_claims

\* _extract_claims(text), from the matches of the patterns
ExtractClaims(found) ==
    LET claims == Candidates(found)
        sorted == SortByStart(claims, Len(claims))
    IN  Deduplicate(sorted, Len(sorted))

---------------------------------------------------------------------------
(* FactChecker._extract_claims: the matches of claim_patterns              *)
(*                                                                         *)
(* A text is a line of pieces: a plain word, the keyword of the causation  *)
(* pattern, a keyword of the date pattern, the digits and keyword that     *)
(* open a statistical claim, digits closed by a point, and a full stop.    *)
(* One space separates two pieces, except that digits closed by a point    *)
(* stand directly before "5% of users" and make the decimal                *)
(* "3.5% of users". The definitive-language pattern has the form of the    *)
(* causation pattern, with other keywords.                                 *)

Pieces == {"word", "causes", "yesterday", "5% of users", "3.", "."}

\* len(piece)
Width(piece) ==
    CASE piece = "word" -> 4
      [] piece = "causes" -> 6
      [] piece = "yesterday" -> 9
      [] piece = "5% of users" -> 11
      [] piece = "3." -> 2
      [] piece = "." -> 1

\* the white space after piece i
Gap(pieces, i) ==
    IF i < Len(pieces) /\ pieces[i] = "3." /\ pieces[i + 1] = "5% of users"
    THEN 0 ELSE 1

\* the offsets of piece i in the text
RECURSIVE StartOf(_, _)
StartOf(pieces, i) ==
    IF i = 1 THEN 0
    ELSE StartOf(pieces, i - 1) + Width(pieces[i - 1]) + Gap(pieces, i - 1)

EndOf(pieces, i) == StartOf(pieces, i) + Width(pieces[i])

\* [.!?]: the piece ends in one
Closes(piece) == piece \in {".", "3."}

\* .*?[.!?] after piece i: the first piece behind it that ends in [.!?], 0
\* when the line has none
FirstClose(pieces, i) ==
    LET closing == {j \in (i + 1)..Len(pieces) : Closes(pieces[j])}
    IN  IF closing = {} THEN 0
        ELSE CHOOSE j \in closing : \A k \in closing : j <= k

\* re.finditer of the statistical pattern from piece s on: the match begins
\* at the digits, those of the integer part if the number is a decimal that
\* the scan has not entered, and ends with the first [.!?] behind the
\* keyword; the scan goes on behind the match
RECURSIVE Statistical(_, _)
Statistical(pieces, s) ==
    LET heads == {i \in s..Len(pieces) :
                     pieces[i] = "5% of users" /\ FirstClose(pieces, i) # 0}
    IN  IF heads = {} THEN << >>
        ELSE LET i     == CHOOSE h \in heads : \A k \in heads : h <= k
                 first == IF i > s /\ pieces[i - 1] = "3." THEN i - 1 ELSE i
                 last  == FirstClose(pieces, i)
                 start == StartOf(pieces, first)
                 end   == EndOf(pieces, last)
             IN  <<Candidate(start, end, end - start)>>
                     \o Statistical(pieces, last + 1)

\* re.finditer of a pattern [^.!?]*?keyword.*?[.!?] from piece s on: the
\* match begins where the scan stands, or behind the last [.!?] before the
\* keyword, and ends with the first [.!?] behind the keyword; strip() takes
\* the white space at its beginning off the claim text
RECURSIVE Worded(_, _, _)
Worded(pieces, keyword, s) ==
    LET found == {i \in s..Len(pieces) :
                     pieces[i] = keyword /\ FirstClose(pieces, i) # 0}
    IN  IF found = {} THEN << >>
        ELSE LET i      == CHOOSE f \in found : \A k \in found : f <= k
                 closed == {q \in s..(i - 1) : Closes(pieces[q])}
                 before == IF closed = {} THEN s - 1
                           ELSE CHOOSE q \in closed : \A k \in closed : q >= k
                 start  == IF before = 0 THEN 0 ELSE EndOf(pieces, before)
                 space  == IF before = 0 THEN 0 ELSE Gap(pieces, before)
                 last   == FirstClose(pieces, i)
                 end    == EndOf(pieces, last)
             IN  <<Candidate(start, end, end - start - space)>>
                     \o Worded(pieces, keyword, last + 1)

\* for pattern in claim_patterns: for match in re.finditer(pattern, text)
FindClaims(pieces) ==
    Statistical(pieces, 1) \o Worded(pieces, "causes", 1)
        \o Worded(pieces, "yesterday", 1)

---------------------------------------------------------------------------
(* FactChecker: the lookups of a claim                                     *)
(*                                                                         *)
(* A claim carries, besides its offsets, the set of words of its           *)
(* normalized text, whether it contains a number, where citation patterns  *)
(* match around it, and what the external service would answer for it.     *)
(* An entry of known_claims is the word set of its claim_text, its         *)
(* verified flag and its source_url.                                       *)

Entry(words, verified, source_url) ==
    [words |-> words, verified |-> verified, source_url |-> source_url]

SimilarityToEntry(words, db_words) ==
    <<Cardinality(words \cap db_words), Cardinality(db_words)>>

\* intersection / union, as a fraction
Similarity(words, db_words) ==
    <<Cardinality(words \cap db_words), Cardinality(words \cup db_words)>>

\* the fraction q is greater than the fraction r
Greater(q, r) == q[1] * r[2] > r[1] * q[2]

\* similarity > 0.7
AboveThreshold(similarity) == 10 * similarity[1] > 7 * similarity[2]

BetterOrEqual(similarity, best_similarity) == ~Greater(best_similarity, similarity)

\* similarity > best_similarity
Better(similarity, best_similarity) == Greater(similarity, best_similarity)

NoMatch == [best_match |-> 0, best_similarity |-> <<0, 1>>]

\* the loop over known_claims, after k entries; best_match is the position
\* of the entry, 0 for None
RECURSIVE BestMatch(_, _, _)
BestMatch(words, known_claims, k) ==
    IF k = 0 THEN NoMatch
    ELSE LET best       == BestMatch(words, known_claims, k - 1)
             db_words   == known_claims[k].words
             similarity == Similarity(words, db_words)
         IN  IF words = {} \/ db_words = {} THEN best
             ELSE IF Better(similarity, best.best_similarity)
                     /\ AboveThreshold(similarity)
             THEN [best_match |-> k, best_similarity |-> similarity]
             ELSE best

\* _check_against_local_db(claim)
CheckAgainstLocalDb(words, known_claims) ==
    LET best == BestMatch(words, known_claims, Len(known_claims))
    IN  IF best.best_match # 0
        THEN [ found |-> TRUE,
               verified |-> known_claims[best.best_match].verified,
               confidence |-> best.best_similarity,
               source_url |-> known_claims[best.best_match].source_url ]
        ELSE [ found |-> FALSE, verified |-> FALSE, confidence |-> <<0, 1>>,
               source_url |-> 0 ]

\* _is_statistical_claim(claim): the claim text contains a number
IsStatistical(claim) == claim.number

\* the characters after the claim that _has_citation looks at
CitationWindow == 100

WithinRest(after) == after > 0

\* a citation pattern matches in text[claim_end : claim_end + 100]; after is
\* the offset from claim_end at which the first such match can end, 0 when
\* no citation follows the claim
Within(after) == after > 0 /\ after <= CitationWindow

\* _has_citation(text, claim_start, claim_end)
HasCitation(claim) == claim.cited_within \/ Within(claim.cited_after)

LookupUnkeyed(claim, cfg) ==
    LET local_check == CheckAgainstLocalDb(claim.words, cfg.known_claims)
        external_check == claim.external
    IN  IF local_check.found
        THEN [ lookup |-> IF local_check.verified THEN "local_true"
                          ELSE "local_false",
               confidence |-> ToScale(local_check.confidence) ]
        ELSE IF cfg.fact_check_tools /\ external_check.found
        THEN [ lookup |-> IF external_check.verified THEN "external_true"
                          ELSE "external_false",
               confidence |-> external_check.confidence ]
        ELSE IF IsStatistical(claim) /\ ~HasCitation(claim)
        THEN [lookup |-> "uncited_statistic", confidence |-> 0]
        ELSE [lookup |-> "unflagged", confidence |-> 0]

\* the body of the loop of check_facts for one claim: how its lookups end
Lookup(claim, cfg) ==
    LET local_check == CheckAgainstLocalDb(claim.words, cfg.known_claims)
        external_check == claim.external
    IN  IF local_check.found
        THEN [ lookup |-> IF local_check.verified THEN "local_true"
                          ELSE "local_false",
               confidence |-> ToScale(local_check.confidence) ]
        ELSE IF cfg.fact_check_tools
        THEN IF external_check.found
             THEN [ lookup |-> IF external_check.verified THEN "external_true"
                               ELSE "external_false",
                    confidence |-> external_check.confidence ]
             ELSE IF IsStatistical(claim) /\ ~HasCitation(claim)
             THEN [lookup |-> "uncited_statistic", confidence |-> 0]
             ELSE [lookup |-> "unflagged", confidence |-> 0]
        ELSE [lookup |-> "unflagged", confidence |-> 0]

\* check_facts(text), from the matches of the claim patterns in the text
CheckFactsOf(found, cfg, up) ==
    LET claims == ExtractClaims(found)
    IN  CheckFacts([claims |-> [k \in 1..Len(claims) |-> Lookup(claims[k], cfg)]],
                   up)

---------------------------------------------------------------------------
(* PatternAnalyzer                                                         *)

\* propaganda_types: the techniques with a match, in table order
DetectedTechniques(txt) ==
    SelectSeq(TechniqueKinds, LAMBDA t : txt.count[t] > 0)

\* len(propaganda_matches)
RECURSIVE PropagandaCount(_, _)
PropagandaCount(txt, k) ==
    IF k = 0 THEN 0 ELSE PropagandaCount(txt, k - 1) + txt.count[TechniqueKinds[k]]

\* one propaganda_technique issue per detected technique; its spans are the
\* matches m with m.get("technique") == technique, and no match has that key
PropagandaIssues(txt) ==
    LET detected == DetectedTechniques(txt)
    IN  [ i \in 1..Len(detected) |->
            SpannedIssue("propaganda_technique", detected[i], Hundredths(75), << >>) ]

\* whether count matches in words words make more than `limit` per 100 words
DensityAbove(count, words, limit) == count * 100 > limit * words

\* analyze_patterns(text)
AnalyzePatterns(txt) ==
    LET words       == WordCount(txt)
        clickbait   == txt.count["clickbait"] > 0
        propaganda  == PropagandaCount(txt, Len(TechniqueKinds))
        sensational == txt.count["sensationalist"] > 0
        hedging     == Divides(words) /\ DensityAbove(txt.count["hedging"], words, 5)
        passive     == Divides(words) /\ DensityAbove(txt.count["passive"], words, 8)
        issues ==
            (IF clickbait
             THEN << SpannedIssue("clickbait", "clickbait", Hundredths(85),
                                  Spans(Matches(txt, "clickbait"))) >>
             ELSE << >>) \o
            PropagandaIssues(txt) \o
            (IF sensational
             THEN << SpannedIssue("sensationalist_language", "sensationalist",
                                  Hundredths(80),
                                  Spans(Matches(txt, "sensationalist"))) >>
             ELSE << >>) \o
            (IF hedging
             THEN << SpannedIssue("excessive_hedging", "hedging", Hundredths(70),
                                  Spans(Matches(txt, "hedging"))) >>
             ELSE << >>) \o
            (IF passive
             THEN << SpannedIssue("excessive_passive_voice", "passive voice",
                                  Hundredths(60),
                                  Spans(Matches(txt, "passive"))) >>
             ELSE << >>)
        patterns ==
            (IF clickbait THEN <<"clickbait">> ELSE << >>) \o
            (IF propaganda > 0 THEN <<"propaganda_techniques">> ELSE << >>) \o
            (IF sensational THEN <<"sensationalist_language">> ELSE << >>) \o
            (IF hedging THEN <<"excessive_hedging">> ELSE << >>) \o
            (IF passive THEN <<"excessive_passive_voice">> ELSE << >>)
    IN  [ issues |-> issues,
          metadata |->
            PatternMetadata(patterns,
                IF clickbait THEN Level(txt.count["clickbait"], words, 2) ELSE 0,
                IF propaganda > 0 THEN Level(propaganda, words, 2) ELSE 0,
                IF sensational THEN Level(txt.count["sensationalist"], words, 3) ELSE 0,
                Level(txt.count["hedging"], words, 5)) ]

---------------------------------------------------------------------------
(* ContentAnalyzer.analyze_text                                            *)

Flags ==
    {"check_facts", "analyze_bias", "detect_emotional_manipulation",
     "analyze_linguistic_patterns"}

\* the options argument: None (given = FALSE), or a dictionary of some flags
NoOptions == [given |-> FALSE, flags |-> << >>]
OptionsDict(flags) == [given |-> TRUE, flags |-> flags]

\* options = options or {all four flags: True}
EffectiveOptions(opts) ==
    IF ~opts.given \/ DOMAIN opts.flags = {}
    THEN [f \in Flags |-> TRUE]
    ELSE opts.flags

OptionGetDefaultFalse(opts, flag) ==
    IF flag \in DOMAIN EffectiveOptions(opts)
    THEN EffectiveOptions(opts)[flag] ELSE FALSE

\* options.get(flag, True)
OptionGet(opts, flag) ==
    IF flag \in DOMAIN EffectiveOptions(opts)
    THEN EffectiveOptions(opts)[flag] ELSE TRUE

EmptyResults == [issues |-> << >>, metadata |-> << >>, sources |-> << >>]

MergeReversed(res, key, detector) ==
    [res EXCEPT !.issues = detector.issues \o @,
                !.metadata = @ @@ (key :> detector.metadata)]

\* results["issues"].extend(...); results["metadata"][key] = ...
Merge(res, key, detector) ==
    [res EXCEPT !.issues = @ \o detector.issues,
                !.metadata = @ @@ (key :> detector.metadata)]

AfterBias(res, txt, opts, up) ==
    IF OptionGet(opts, "analyze_bias")
    THEN Merge(res, "bias", DetectBias(txt, up))
    ELSE res

AfterEmotion(res, txt, opts, up) ==
    IF OptionGet(opts, "detect_emotional_manipulation")
    THEN Merge(res, "emotional_manipulation", DetectManipulation(txt, up))
    ELSE res

AfterFacts(res, txt, opts, up) ==
    IF OptionGet(opts, "check_facts")
    THEN [Merge(res, "fact_checking", CheckFacts(txt, up))
            EXCEPT !.sources = @ \o CheckFacts(txt, up).sources]
    ELSE res

AfterPatterns(res, txt, opts) ==
    IF OptionGet(opts, "analyze_linguistic_patterns")
    THEN Merge(res, "linguistic_patterns", AnalyzePatterns(txt))
    ELSE res

\* the four detector blocks of analyze_text, in the order of the code
RunDetectors(txt, opts, up) ==
    AfterPatterns(
        AfterFacts(
            AfterEmotion(
                AfterBias(EmptyResults, txt, opts, up),
                txt, opts, up),
            txt, opts, up),
        txt, opts)

\* a detector raised ZeroDivisionError, which analyze_text lets through
Raised(res) ==
    \/ MetaGet(res.metadata, "bias", "overall_bias_level", 0) = ZeroDivisionError
    \/ MetaGet(res.metadata, "emotional_manipulation",
               "emotional_manipulation_score", 0) = ZeroDivisionError
    \/ MetaGet(res.metadata, "emotional_manipulation",
               "emotional_intensity", 0) = ZeroDivisionError
    \/ MetaGet(res.metadata, "linguistic_patterns", "hedging_level", 0)
          = ZeroDivisionError

\* results["credibility_score"] = ...; ["confidence"]; ["summary"]
WithScore(res, score) ==
    [ issues |-> res.issues, metadata |-> res.metadata, sources |-> res.sources,
      credibility_score |-> score.score, confidence |-> score.confidence,
      summary |-> score.summary ]

---------------------------------------------------------------------------
(* ContentAnalyzer.get_highlighted_text                                    *)
(*                                                                         *)
(* The characters of the text are told apart by their positions 1..n, so   *)
(* a piece of text is the sequence of the positions it holds.  A part of   *)
(* the output is plain text or a span element around text.                 *)

\* text[from:to], for a text of n characters
Slice(n, from, to) ==
    LET lo == Min(from, n)
        hi == Min(to, n)
    IN  IF hi <= lo THEN << >> ELSE [i \in 1..(hi - lo) |-> lo + i]

Plain(chars) == [marked |-> FALSE, type |-> 0, chars |-> chars]

\* <span class="highlight-type" title="description">chars</span>
Marked(type, chars) == [marked |-> TRUE, type |-> type, chars |-> chars]

\* all_spans: the spans of all issues, issue by issue
RECURSIVE AllSpans(_, _)
AllSpans(issues, k) ==
    IF k = 0 THEN << >>
    ELSE AllSpans(issues, k - 1) \o
         [ j \in 1..Len(issues[k].spans) |->
             [ start |-> issues[k].spans[j][1], end |-> issues[k].spans[j][2],
               type |-> issues[k].type ] ]

\* the loop over the sorted spans, after k of them: html_parts and last_pos
RECURSIVE HighlightSpans(_, _, _)
HighlightSpans(n, sorted, k) ==
    IF k = 0 THEN [html_parts |-> << >>, last_pos |-> 0]
    ELSE LET before == HighlightSpans(n, sorted, k - 1)
             span   == sorted[k]
             plain  == IF span.start > before.last_pos
                       THEN <<Plain(Slice(n, before.last_pos, span.start))>>
                       ELSE << >>
         IN  [ html_parts |-> before.html_parts \o plain \o
                              <<Marked(span.type, Slice(n, span.start, span.end))>>,
               last_pos |-> span.end ]

\* get_highlighted_text(text, results), for a text of n characters
GetHighlightedText(n, issues) ==
    LET all_spans == AllSpans(issues, Len(issues))
        sorted    == SortByStart(all_spans, Len(all_spans))
        looped    == HighlightSpans(n, sorted, Len(sorted))
    IN  looped.html_parts \o
        (IF looped.last_pos < n THEN <<Plain(Slice(n, looped.last_pos, n))>>
         ELSE << >>)

---------------------------------------------------------------------------
(* Inputs of analyze_text                                                  *)

\* matches and claims per text
MaxMatches == 2

NumMatchKinds == Len(MatchKinds)
NumItems == Len(MatchKinds) + Len(ClaimKinds)

\* the words of a text that has matches; a text without words has none
WordCounts == {20, 200}

\* items: what is found in the text, each a match kind (1..NumMatchKinds) or
\* a claim kind (above); the matches first, table by table, then the claims
Canonical(items) ==
    \A i \in 1..(Len(items) - 1) :
        items[i + 1] <= NumMatchKinds => items[i] <= items[i + 1]

TextOf(items, words) ==
    [ words  |-> words,
      count  |-> [k \in Range(MatchKinds) |->
                    Cardinality({i \in 1..Len(items) :
                        items[i] <= NumMatchKinds /\ MatchKinds[items[i]] = k})],
      claims |-> LET claimed == SelectSeq(items, LAMBDA x : x > NumMatchKinds)
                 IN  [i \in 1..Len(claimed) |-> ClaimKinds[claimed[i] - NumMatchKinds]] ]

\* every dictionary of flags, and None
AllOptions ==
    {NoOptions} \cup
    UNION { {OptionsDict(f) : f \in [S -> BOOLEAN]} : S \in SUBSET Flags }

\* the dictionaries that give all four flags, and None
FullOptions ==
    {NoOptions} \cup {OptionsDict(f) : f \in [Flags -> BOOLEAN]}

\* the dictionaries that give one flag and switch it off, and None
SingleOff ==
    {NoOptions} \cup {OptionsDict(f :> FALSE) : f \in Flags}

\* the options a text of n matches and claims is analysed with: the largest
\* texts with one detector off at most, the next with any full dictionary as
\* well, the smaller ones with every dictionary
OptionsFor(n) ==
    IF n = MaxMatches THEN SingleOff
    ELSE IF n + 1 = MaxMatches THEN FullOptions \cup SingleOff
    ELSE AllOptions

Init ==
    /\ pc = "analyze_text"
    /\ \E n \in 0..MaxMatches : \E items \in [1..n -> 1..NumItems] :
          /\ Canonical(items)
          /\ \E w \in (IF n = 0 THEN {0} \cup WordCounts ELSE WordCounts) :
                text = TextOf(items, w)
          /\ options \in OptionsFor(n)
    /\ results = EmptyResults
    /\ score_results = None
    /\ config = None

\* analyze_text(text, options)
AnalyzeText ==
    /\ pc = "analyze_text"
    /\ \E up \in BOOLEAN :
          LET merged == RunDetectors(text, options, up)
          IN  IF Raised(merged)
              THEN /\ pc' = "raised"
                   /\ UNCHANGED <<results, score_results>>
              ELSE \E upS \in ScoreDirections(merged),
                      upC \in ConfidenceDirections(merged) :
                      LET score == CalculateScore(merged, upS, upC)
                      IN  /\ results' = WithScore(merged, score)
                          /\ score_results' = score
                          /\ pc' = "done"
    /\ UNCHANGED <<text, options, config>>

Next == AnalyzeText

Spec == Init /\ [][Next]_vars

---------------------------------------------------------------------------
(* _detect_political_bias called on its own                                *)

\* matches of each of the two term lists
MaxPolitical == 7

PoliticalText(left, right) ==
    [ words  |-> 200,
      count  |-> [k \in Range(MatchKinds) |->
                    IF k = "left_leaning" THEN left
                    ELSE IF k = "right_leaning" THEN right ELSE 0],
      claims |-> << >> ]

InitPolitical ==
    /\ pc = "detect_political_bias"
    /\ \E left, right \in 0..MaxPolitical : text = PoliticalText(left, right)
    /\ options = NoOptions
    /\ results = EmptyResults
    /\ score_results = None
    /\ config = None

CallDetectPoliticalBias ==
    /\ pc = "detect_political_bias"
    /\ results' = DetectPoliticalBias(text)
    /\ pc' = "political_returned"
    /\ UNCHANGED <<text, options, score_results, config>>

NextPolitical == CallDetectPoliticalBias

SpecPolitical == InitPolitical /\ [][NextPolitical]_vars

---------------------------------------------------------------------------
(* _extract_claims called on its own                                       *)

\* matches of the claim patterns in a text
MaxCandidates == 3

\* where a match starts, how long it is, and how much white space
\* strip() takes off its text
CandidateStarts == {0, 6, 12}
CandidateSpans == {10, 11, 12}
CandidateSpace == {0, 1}

CandidateShapes ==
    {Candidate(b, b + n, n - w) :
        b \in CandidateStarts, n \in CandidateSpans, w \in CandidateSpace}

InitExtract ==
    /\ pc = "extract_claims"
    /\ \E n \in 0..MaxCandidates : \E found \in [1..n -> CandidateShapes] :
          text = [candidates |-> found]
    /\ options = NoOptions
    /\ results = << >>
    /\ score_results = None
    /\ config = None

CallExtractClaims ==
    /\ pc = "extract_claims"
    /\ results' = ExtractClaims(text.candidates)
    /\ pc' = "extract_returned"
    /\ UNCHANGED <<text, options, score_results, config>>

NextExtract == CallExtractClaims

SpecExtract == InitExtract /\ [][NextExtract]_vars

---------------------------------------------------------------------------
(* check_facts and _check_against_local_db called on their own             *)

\* entries of known_claims
MaxEntries == 2

Vocabulary == {"the", "sky", "is", "green", "today"}

\* the words of "Scientists discovered that the sky is green today."
Sentence == Vocabulary \cup {"scientists", "discovered", "that"}

ClaimWordSets == SUBSET Vocabulary \cup {Sentence}

\* the word sets of the entries: four words or more, or none (an entry
\* without claim_text)
EntryWordSets == {S \in SUBSET Vocabulary : Cardinality(S) >= 4} \cup {{}}

\* what the external service answers for a claim
NotFound == [found |-> FALSE, verified |-> FALSE, confidence |-> 0]
Disputed == [found |-> TRUE, verified |-> FALSE, confidence |-> Hundredths(90)]
Supported == [found |-> TRUE, verified |-> TRUE, confidence |-> Hundredths(80)]

ClaimOf(start, end, words, number, cited_within, cited_after, external) ==
    [ start |-> start, end |-> end, len |-> end - start, words |-> words,
      number |-> number, cited_within |-> cited_within,
      cited_after |-> cited_after, external |-> external ]

\* a claim without number or citation, unknown to the external service
PlainClaim(words) == ClaimOf(0, 50, words, FALSE, FALSE, 0, NotFound)

FactConfig(known_claims, fact_check_tools) ==
    [known_claims |-> known_claims, fact_check_tools |-> fact_check_tools]

SkyIsGreen == {"the", "sky", "is", "green"}
GreenToday == {"sky", "is", "green", "today"}

\* claims of a text with several
MaxClaims == 3

ShapesDatabase == <<Entry(SkyIsGreen, FALSE, 1), Entry(GreenToday, TRUE, 2)>>

\* against ShapesDatabase: a refuted and a verified claim, a claim the
\* external service disputes and one it supports, an uncited statistic and
\* a claim nothing is known about
ClaimShapes ==
    << PlainClaim(SkyIsGreen),
       PlainClaim(GreenToday),
       ClaimOf(0, 50, {"today"}, FALSE, FALSE, 0, Disputed),
       ClaimOf(0, 50, {"today"}, FALSE, FALSE, 0, Supported),
       ClaimOf(0, 50, {"today"}, TRUE, FALSE, 0, NotFound),
       PlainClaim({"today"}) >>

\* the k-th claim of a text, clear of the others
PlacedAt(claim, k) ==
    [claim EXCEPT !.start = 60 * (k - 1), !.end = 60 * (k - 1) + 50]

InitFacts ==
    /\ pc = "fact_checker"
    /\ options = NoOptions
    /\ results = EmptyResults
    /\ score_results = None
    /\ \/ \* one plain claim against every database
          \E n \in 0..MaxEntries :
             \E ws \in [1..n -> EntryWordSets], vs \in [1..n -> BOOLEAN] :
                \E words \in ClaimWordSets :
                   /\ text = [candidates |-> <<PlainClaim(words)>>]
                   /\ config = FactConfig([i \in 1..n |-> Entry(ws[i], vs[i], i)],
                                          FALSE)
       \/ \* one claim of every kind, with and without the external service
          \E words \in {Vocabulary, {"today"}} :
             \E number, cited_within, key \in BOOLEAN :
                \E cited_after \in {0, 40, CitationWindow, CitationWindow + 1} :
                   \E external \in {NotFound, Disputed, Supported} :
                      \E db \in {<< >>, <<Entry(SkyIsGreen, FALSE, 1)>>,
                                  <<Entry(SkyIsGreen, TRUE, 1)>>} :
                         /\ text = [candidates |->
                                     <<ClaimOf(0, 50, words, number, cited_within,
                                               cited_after, external)>>]
                         /\ config = FactConfig(db, key)
       \/ \* several claims, each with one of the ways its lookups can end
          \E n \in 0..MaxClaims : \E shapes \in [1..n -> 1..Len(ClaimShapes)] :
             /\ text = [candidates |->
                         [k \in 1..n |-> PlacedAt(ClaimShapes[shapes[k]], k)]]
             /\ \E key \in BOOLEAN : config = FactConfig(ShapesDatabase, key)
       \/ \* the sentence, matched by two of the claim patterns
          /\ text = [candidates |-> <<PlainClaim(Sentence), PlainClaim(Sentence)>>]
          /\ config = FactConfig(<<Entry(SkyIsGreen, FALSE, 1)>>, FALSE)

\* check_facts(text)
CallCheckFacts ==
    /\ pc = "fact_checker"
    /\ \E up \in BOOLEAN :
          results' = CheckFactsOf(text.candidates, config, up)
    /\ pc' = "facts_returned"
    /\ UNCHANGED <<text, options, score_results, config>>

\* _check_against_local_db(claim), for the first claim of the text
CallCheckAgainstLocalDb ==
    /\ pc = "fact_checker"
    /\ text.candidates # << >>
    /\ results' = CheckAgainstLocalDb(text.candidates[1].words,
                                      config.known_claims)
    /\ pc' = "local_returned"
    /\ UNCHANGED <<text, options, score_results, config>>

NextFacts == CallCheckFacts \/ CallCheckAgainstLocalDb

SpecFacts == InitFacts /\ [][NextFacts]_vars

---------------------------------------------------------------------------
(* _extract_claims called on its own, on a line of text                    *)

\* pieces of a line
MaxPieces == 6

InitClaims ==
    /\ pc = "extract_claims_of_text"
    /\ \E n \in 0..MaxPieces : \E pieces \in [1..n -> Pieces] :
          text = [pieces |-> pieces]
    /\ options = NoOptions
    /\ results = << >>
    /\ score_results = None
    /\ config = None

\* _extract_claims(text)
CallExtractClaimsOfText ==
    /\ pc = "extract_claims_of_text"
    /\ results' = ExtractClaims(FindClaims(text.pieces))
    /\ pc' = "claims_returned"
    /\ UNCHANGED <<text, options, score_results, config>>

NextClaims == CallExtractClaimsOfText

SpecClaims == InitClaims /\ [][NextClaims]_vars

---------------------------------------------------------------------------
(* get_highlighted_text called on its own                                  *)

\* characters of a text, and issues of a result
MaxChars == 4
MaxSpanned == 3

\* the spans that lie within a text of n characters
SpansWithin(n) == {p \in (0..n) \X (0..n) : p[1] <= p[2]}

\* a result whose issues have one span each, the k-th of type k
InitHighlight ==
    /\ pc = "get_highlighted_text"
    /\ \E n \in 0..MaxChars : \E m \in 0..MaxSpanned :
          \E spans \in [1..m -> SpansWithin(n)] :
             text = [ length |-> n,
                      issues |-> [k \in 1..m |-> [type |-> k, spans |-> <<spans[k]>>]] ]
    /\ options = NoOptions
    /\ results = << >>
    /\ score_results = None
    /\ config = None

CallGetHighlightedText ==
    /\ pc = "get_highlighted_text"
    /\ results' = GetHighlightedText(text.length, text.issues)
    /\ pc' = "highlight_returned"
    /\ UNCHANGED <<text, options, score_results, config>>

NextHighlight == CallGetHighlightedText

SpecHighlight == InitHighlight /\ [][NextHighlight]_vars

---------------------------------------------------------------------------
(* detect_bias called on its own, on texts with political terms            *)

\* a text with political terms and, possibly, one loaded phrase
BiasText(left, right, loaded) ==
    [ words  |-> 200,
      count  |-> [k \in Range(MatchKinds) |->
                    IF k = "left_leaning" THEN left
                    ELSE IF k = "right_leaning" THEN right
                    ELSE IF k = "loaded_language" THEN loaded ELSE 0],
      claims |-> << >> ]

InitBias ==
    /\ pc = "detect_bias"
    /\ \E left, right \in 0..MaxPolitical : \E loaded \in 0..1 :
          text = BiasText(left, right, loaded)
    /\ options = NoOptions
    /\ results = EmptyResults
    /\ score_results = None
    /\ config = None

CallDetectBias ==
    /\ pc = "detect_bias"
    /\ \E up \in BOOLEAN : results' = DetectBias(text, up)
    /\ pc' = "bias_returned"
    /\ UNCHANGED <<text, options, score_results, config>>

NextBias == CallDetectBias

SpecBias == InitBias /\ [][NextBias]_vars

---------------------------------------------------------------------------
(* detect_manipulation called on its own                                   *)

\* matches of one emotion category in a text
MaxTriggers == 2

\* a text with triggers[e] matches of each emotion category e and the given
\* matches of the urgency phrases, the fear phrases, capitals and
\* exclamation marks
EmotionText(triggers, urgency, fear, caps, exclamations, words) ==
    [ words  |-> words,
      count  |-> [k \in Range(MatchKinds) |->
                    IF k \in Range(EmotionKinds) THEN triggers[k]
                    ELSE IF k = "urgency_patterns" THEN urgency
                    ELSE IF k = "fear_patterns" THEN fear
                    ELSE IF k = "all_caps" THEN caps
                    ELSE IF k = "exclamations" THEN exclamations ELSE 0],
      claims |-> << >> ]

NoTriggers == [e \in Range(EmotionKinds) |-> 0]

InitEmotion ==
    /\ pc = "detect_manipulation"
    /\ \/ \E triggers \in [Range(EmotionKinds) -> 0..MaxTriggers] :
          \E urgency, fear, caps, exclamations \in 0..1 :
          \E words \in WordCounts :
             text = EmotionText(triggers, urgency, fear, caps, exclamations, words)
       \/ text = EmotionText(NoTriggers, 0, 0, 0, 0, 0)
    /\ options = NoOptions
    /\ results = EmptyResults
    /\ score_results = None
    /\ config = None

CallDetectManipulation ==
    /\ pc = "detect_manipulation"
    /\ \E up \in BOOLEAN : results' = DetectManipulation(text, up)
    /\ pc' = "manipulation_returned"
    /\ UNCHANGED <<text, options, score_results, config>>

NextEmotion == CallDetectManipulation

SpecEmotion == InitEmotion /\ [][NextEmotion]_vars

---------------------------------------------------------------------------
(* analyze_patterns called on its own                                      *)

\* matches of the clickbait, sensationalist, hedging or passive patterns
MaxPatternMatches == 2

\* a text with techniques[t] matches of each propaganda technique t and
\* others[k] matches of each other pattern table k
PatternText(techniques, others, words) ==
    [ words  |-> words,
      count  |-> [k \in Range(MatchKinds) |->
                    IF k \in Range(TechniqueKinds) THEN techniques[k]
                    ELSE IF k \in Range(PatternKinds) THEN others[k] ELSE 0],
      claims |-> << >> ]

InitPatterns ==
    /\ pc = "analyze_patterns"
    /\ \/ \E techniques \in [Range(TechniqueKinds) -> 0..1] :
          \E others \in [Range(PatternKinds) -> 0..MaxPatternMatches] :
          \E words \in WordCounts :
             text = PatternText(techniques, others, words)
       \/ text = PatternText([t \in Range(TechniqueKinds) |-> 0],
                             [k \in Range(PatternKinds) |-> 0], 0)
    /\ options = NoOptions
    /\ results = EmptyResults
    /\ score_results = None
    /\ config = None

CallAnalyzePatterns ==
    /\ pc = "analyze_patterns"
    /\ results' = AnalyzePatterns(text)
    /\ pc' = "patterns_returned"
    /\ UNCHANGED <<text, options, score_results, config>>

NextPatterns == CallAnalyzePatterns

SpecPatterns == InitPatterns /\ [][NextPatterns]_vars

---------------------------------------------------------------------------
(* One operation called again and again on the same input, on the same     *)
(* objects. The lookups' outcomes are given with the text: no collaborator *)
(* is configured, or a stub answers each claim the same way every time.    *)
(* round() is a function of its operand: config holds the direction it     *)
(* takes at the ties of this input.                                        *)

\* calls of the operation
MaxRuns == 2
\* matches and claims of a text
MaxFound == 2

InitialIssuesCarried(previous) ==
    IF previous = << >> THEN << >> ELSE previous[Len(previous)].issues

\* results = {"issues": [], ...}: every call of a detector builds its result
\* from a new, empty list, whatever the calls before it returned
InitialIssues(previous) == << >>

\* what a call of a detector returns after the calls that returned `previous`
Outcome(previous, detected) ==
    [detected EXCEPT !.issues = InitialIssues(previous) \o @]

Rounding(round_half_up) == [round_half_up |-> round_half_up]

InitRepeat ==
    /\ pc = "repeat"
    /\ \E n \in 0..MaxFound : \E items \in [1..n -> 1..NumItems] :
          /\ Canonical(items)
          /\ \E w \in (IF n = 0 THEN {0} \cup WordCounts ELSE WordCounts) :
                text = TextOf(items, w)
    /\ options = NoOptions
    /\ results = << >>
    /\ score_results = None
    /\ \E up \in BOOLEAN : config = Rounding(up)

\* detect_bias(text), once more
RepeatDetectBias ==
    /\ pc \in {"repeat", "repeat_detect_bias"}
    /\ Len(results) < MaxRuns
    /\ results' = Append(results,
                     Outcome(results, DetectBias(text, config.round_half_up)))
    /\ pc' = "repeat_detect_bias"
    /\ UNCHANGED <<text, options, score_results, config>>

\* detect_manipulation(text), once more
RepeatDetectManipulation ==
    /\ pc \in {"repeat", "repeat_detect_manipulation"}
    /\ Len(results) < MaxRuns
    /\ results' = Append(results,
                     Outcome(results, DetectManipulation(text, config.round_half_up)))
    /\ pc' = "repeat_detect_manipulation"
    /\ UNCHANGED <<text, options, score_results, config>>

\* check_facts(text), once more
RepeatCheckFacts ==
    /\ pc \in {"repeat", "repeat_check_facts"}
    /\ Len(results) < MaxRuns
    /\ results' = Append(results,
                     Outcome(results, CheckFacts(text, config.round_half_up)))
    /\ pc' = "repeat_check_facts"
    /\ UNCHANGED <<text, options, score_results, config>>

\* analyze_patterns(text), once more
RepeatAnalyzePatterns ==
    /\ pc \in {"repeat", "repeat_analyze_patterns"}
    /\ Len(results) < MaxRuns
    /\ results' = Append(results, Outcome(results, AnalyzePatterns(text)))
    /\ pc' = "repeat_analyze_patterns"
    /\ UNCHANGED <<text, options, score_results, config>>

\* calculate_score(analysis_results), once more, on the merged results of
\* the four detectors for the text
RepeatCalculateScore ==
    /\ pc \in {"repeat", "repeat_calculate_score"}
    /\ Len(results) < MaxRuns
    /\ results' = Append(results,
                     CalculateScore(RunDetectors(text, NoOptions, config.round_half_up),
                                    config.round_half_up, config.round_half_up))
    /\ pc' = "repeat_calculate_score"
    /\ UNCHANGED <<text, options, score_results, config>>

NextRepeat ==
    \/ RepeatDetectBias
    \/ RepeatDetectManipulation
    \/ RepeatCheckFacts
    \/ RepeatAnalyzePatterns
    \/ RepeatCalculateScore

SpecRepeat == InitRepeat /\ [][NextRepeat]_vars

---------------------------------------------------------------------------
(* The three detectors with level metrics, each called on its own on texts *)
(* with several occurrences of one phrase                                  *)

\* occurrences of the phrase
MaxOccurrences == 3

\* a text with n matches of kind and m matches of other
LevelText(kind, n, other, m, words) ==
    [ words  |-> words,
      count  |-> [k \in Range(MatchKinds) |->
                    IF k = kind THEN n ELSE IF k = other THEN m ELSE 0],
      claims |-> << >> ]

\* the text with twice the matches of kind, and as many words
Doubled(txt, kind) == [txt EXCEPT !.count[kind] = 2 * @]

InitLevels ==
    /\ pc \in {"detect_bias", "detect_manipulation", "analyze_patterns"}
    /\ \E kind, other \in Range(MatchKinds) :
       \E n \in 1..MaxOccurrences : \E m \in 0..1 : \E words \in WordCounts :
          text = LevelText(kind, n, other, m, words)
    /\ options = NoOptions
    /\ results = EmptyResults
    /\ score_results = None
    /\ config = None

NextLevels == CallDetectBias \/ CallDetectManipulation \/ CallAnalyzePatterns

SpecLevels == InitLevels /\ [][NextLevels]_vars

---------------------------------------------------------------------------
(* analyze_text on texts whose matches have offsets. A match is where the  *)
(* regular expression found it: match.start() and match.end() are offsets  *)
(* into the text, 0 <= start <= end <= len(text).                          *)

\* len(text)
TextLength == 12
\* matches of one kind in a text
MaxLocated == 2

\* where a match can be: at the start of the text, from inside it to its
\* end, and all of it
Places == { <<0, 4>>, <<2, TextLength>>, <<0, TextLength>> }

\* the span of the j-th item of a text: its kind and its rank among the
\* matches of the kind, or its rank among the claims
ItemSpan(items, j) ==
    IF items[j] <= NumMatchKinds
    THEN <<MatchKinds[items[j]],
           Cardinality({i \in 1..j : items[i] = items[j]})>>
    ELSE <<"claim", Cardinality({i \in 1..j : items[i] > NumMatchKinds})>>

LocatedText(items, words, places) ==
    [ words  |-> TextOf(items, words).words,
      count  |-> TextOf(items, words).count,
      claims |-> TextOf(items, words).claims,
      length |-> TextLength,
      at     |-> [sp \in {ItemSpan(items, j) : j \in 1..Len(items)} |->
                    places[CHOOSE j \in 1..Len(items) : ItemSpan(items, j) = sp]] ]

SpanOfContext(place) == <<place[1] - 30, place[2] + 30>>

\* [match.start(), match.end()]
SpanOf(place) == <<place[1], place[2]>>

\* the issues with every span as the pair of offsets of its match
Located(issues, txt) ==
    [ i \in 1..Len(issues) |->
        [ type |-> issues[i].type,
          description |-> issues[i].description,
          confidence |-> issues[i].confidence,
          spans |-> [m \in 1..Len(issues[i].spans) |->
                       SpanOf(txt.at[issues[i].spans[m]])] ] ]

InitLocated ==
    /\ pc = "analyze_text"
    /\ \E kind \in 1..NumMatchKinds : \E n \in 0..MaxLocated :
       \E claim \in 0..Len(ClaimKinds) :
          LET items == [j \in 1..n |-> kind] \o
                       (IF claim > 0 THEN <<NumMatchKinds + claim>> ELSE << >>)
          IN  /\ items # << >>
              /\ \E words \in WordCounts : \E places \in [1..Len(items) -> Places] :
                    text = LocatedText(items, words, places)
    /\ options = NoOptions
    /\ results = EmptyResults
    /\ score_results = None
    /\ config = None

\* analyze_text(text)
AnalyzeLocated ==
    /\ pc = "analyze_text"
    /\ \E up \in BOOLEAN :
          LET merged == RunDetectors(text, options, up)
          IN  \E upS \in ScoreDirections(merged),
                 upC \in ConfidenceDirections(merged) :
                 LET score == CalculateScore(merged, upS, upC)
                 IN  /\ results' = [WithScore(merged, score) EXCEPT
                                       !.issues = Located(@, text)]
                     /\ score_results' = score
                     /\ pc' = "done"
    /\ UNCHANGED <<text, options, config>>

NextLocated == AnalyzeLocated

SpecLocated == InitLocated /\ [][NextLocated]_vars

---------------------------------------------------------------------------
(* ContentAnalyzer.analyze_url. text holds the URL, what fetching it gives *)
(* and the page; score_results lists what calculate_score returned to the  *)
(* calls analyze_text made of it: it grows when analyze_text runs.         *)

\* matches and claims of a page's text
MaxPageItems == 1

\* urlparse(url), the outcome of requests.get and raise_for_status, and the
\* page: whether it has an article element and a body, and its text
UrlInput(scheme, netloc, response, article, body, page_text) ==
    [ scheme |-> scheme, netloc |-> netloc, response |-> response,
      article |-> article, body |-> body, page_text |-> page_text ]

ValidUrlEither(input) == input.scheme # "" \/ input.netloc # ""

\* not (not parsed_url.scheme or not parsed_url.netloc)
ValidUrl(input) == input.scheme # "" /\ input.netloc # ""

\* requests.get returned and raise_for_status did not raise
Fetched(input) == input.response = "ok"

\* article_elements[0].get_text(...) or soup.body.get_text(...): a page with
\* neither has soup.body None, and the attribute access raises
Extracted(input) == input.article \/ input.body

InvalidUrlResult ==
    [ error |-> "Invalid URL format", credibility_score |-> 0 ]

FailedResult(input) ==
    [ error |-> "Failed to analyze URL", credibility_score |-> 0,
      url |-> <<input.scheme, input.netloc>> ]

\* whether analyze_url reaches self.analyze_text(text, options)
Invokes(input) == ValidUrl(input) /\ Fetched(input) /\ Extracted(input)

\* analyze_url(url, options), given what analyze_text returns
AnalyzeUrl(input, analysis) ==
    IF ~ValidUrl(input) THEN InvalidUrlResult
    ELSE IF ~Fetched(input) \/ ~Extracted(input) THEN FailedResult(input)
    ELSE [ issues |-> analysis.issues, metadata |-> analysis.metadata,
           sources |-> analysis.sources,
           credibility_score |-> analysis.credibility_score,
           confidence |-> analysis.confidence, summary |-> analysis.summary,
           url |-> <<input.scheme, input.netloc>>, domain |-> input.netloc ]

InitUrl ==
    /\ pc = "analyze_url"
    /\ \E scheme \in {"", "https"} : \E netloc \in {"", "example.org"} :
       \E response \in {"ok", "timeout", "http_error"} :
       \E article, body \in BOOLEAN :
       \E n \in 0..MaxPageItems : \E items \in [1..n -> 1..NumItems] :
          /\ Canonical(items)
          /\ \E w \in (IF n = 0 THEN {0} \cup WordCounts ELSE WordCounts) :
                text = UrlInput(scheme, netloc, response, article, body,
                                TextOf(items, w))
    /\ options = NoOptions
    /\ results = EmptyResults
    /\ score_results = << >>
    /\ config = None

\* analyze_url(url, options)
CallAnalyzeUrl ==
    /\ pc = "analyze_url"
    /\ \E up \in BOOLEAN :
          LET merged == RunDetectors(text.page_text, options, up)
          IN  \E upS \in ScoreDirections(merged),
                 upC \in ConfidenceDirections(merged) :
                 LET score == CalculateScore(merged, upS, upC)
                 IN  /\ results' = AnalyzeUrl(text, WithScore(merged, score))
                     /\ score_results' = IF Invokes(text)
                                          THEN Append(score_results, score)
                                          ELSE score_results
    /\ pc' = "url_returned"
    /\ UNCHANGED <<text, options, config>>

NextUrl == CallAnalyzeUrl

SpecUrl == InitUrl /\ [][NextUrl]_vars

---------------------------------------------------------------------------
(* Calls of analyze_text running concurrently on one ContentAnalyzer, each *)
(* in its own thread. pc, text and results have one element per call; a    *)
(* thread can be preempted between any two of the calls analyze_text       *)
(* makes. config is what the calls share: the objects' tables, weights,    *)
(* factors and claims database, and round() as in the repeated calls.      *)

\* concurrent calls
MaxCalls == 2

Calls == 1..MaxCalls

\* the tables, weights, factors and database as __init__ loaded them
LoadedTables == "loaded"

Shared(round_half_up) ==
    [ round_half_up |-> round_half_up, tables |-> LoadedTables ]

\* what the calls analyse: a text with one match for each detector's
\* tables, and one with a refuted claim
ConcurrentTexts ==
    { TextOf(<<CHOOSE i \in 1..NumMatchKinds : MatchKinds[i] = kind>>, 200) :
        kind \in {"loaded_language", "fear", "clickbait"} }
    \cup { TextOf(<<NumMatchKinds + (CHOOSE c \in 1..Len(ClaimKinds) :
                        ClaimKinds[c].lookup = "local_false")>>, 200) }

LocalShared(call) == 1

\* results = {...}: the dictionary a call fills is a local variable of the
\* call
Local(call) == call

InitConcurrent ==
    /\ pc = [call \in Calls |-> "analyze_text"]
    /\ text \in [Calls -> ConcurrentTexts]
    /\ options = NoOptions
    /\ results = [call \in Calls |-> EmptyResults]
    /\ score_results = None
    /\ \E up \in BOOLEAN : config = Shared(up)

\* results = {"timestamp": ..., "issues": [], "metadata": {}, "sources": []}
PrepareResults(call) ==
    /\ pc[call] = "analyze_text"
    /\ results' = [results EXCEPT ![Local(call)] = EmptyResults]
    /\ pc' = [pc EXCEPT ![call] = "analyze_bias"]
    /\ UNCHANGED <<text, options, score_results, config>>

\* the detect_bias block
StepBias(call) ==
    /\ pc[call] = "analyze_bias"
    /\ results' = [results EXCEPT ![Local(call)] =
                      AfterBias(@, text[call], options, config.round_half_up)]
    /\ pc' = [pc EXCEPT ![call] = "detect_emotional_manipulation"]
    /\ UNCHANGED <<text, options, score_results, config>>

\* the detect_manipulation block
StepEmotion(call) ==
    /\ pc[call] = "detect_emotional_manipulation"
    /\ results' = [results EXCEPT ![Local(call)] =
                      AfterEmotion(@, text[call], options, config.round_half_up)]
    /\ pc' = [pc EXCEPT ![call] = "check_facts"]
    /\ UNCHANGED <<text, options, score_results, config>>

\* the check_facts block
StepFacts(call) ==
    /\ pc[call] = "check_facts"
    /\ results' = [results EXCEPT ![Local(call)] =
                      AfterFacts(@, text[call], options, config.round_half_up)]
    /\ pc' = [pc EXCEPT ![call] = "analyze_linguistic_patterns"]
    /\ UNCHANGED <<text, options, score_results, config>>

\* the analyze_patterns block
StepPatterns(call) ==
    /\ pc[call] = "analyze_linguistic_patterns"
    /\ results' = [results EXCEPT ![Local(call)] =
                      AfterPatterns(@, text[call], options)]
    /\ pc' = [pc EXCEPT ![call] = "calculate_score"]
    /\ UNCHANGED <<text, options, score_results, config>>

\* calculate_score(results) and the three assignments of its outcome
StepScore(call) ==
    /\ pc[call] = "calculate_score"
    /\ results' = [results EXCEPT ![Local(call)] =
                      WithScore(@, CalculateScore(@, config.round_half_up,
                                                  config.round_half_up))]
    /\ pc' = [pc EXCEPT ![call] = "done"]
    /\ UNCHANGED <<text, options, score_results, config>>

NextConcurrent ==
    \E call \in Calls :
        \/ PrepareResults(call)
        \/ StepBias(call)
        \/ StepEmotion(call)
        \/ StepFacts(call)
        \/ StepPatterns(call)
        \/ StepScore(call)

SpecConcurrent == InitConcurrent /\ [][NextConcurrent]_vars

---------------------------------------------------------------------------
(* Properties of calculate_score (checked under SpecScore)                 *)

Returned == pc = "returned"

Abs(x) == IF x >= 0 THEN x ELSE -x

\* C1: for every list of issues with confidence in [0,1] and every metadata
\* with levels in [0,1], the returned score is an integer in [0,100] and
\* the returned confidence lies in [0,1].
C1_ScoreAndConfidenceInRange ==
    Returned =>
        /\ score_results.score \in 0..100
        /\ score_results.confidence \in 0..Scale
        /\ score_results.summary.score = score_results.score

\* the penalties alone take the score below 0, and the result is 0
C1_Witness ==
    /\ Returned
    /\ BaseScore(results.issues, results.metadata) < 0
    /\ score_results.score = 0

\* weight[type], 2 for a type without a configured weight
C5_Weight(type) ==
    IF type \in DOMAIN issue_weights THEN issue_weights[type] ELSE 2

\* sum of weight x confidence over the issues of `type` among the first k
RECURSIVE C5_TypeTotal(_, _, _)
C5_TypeTotal(issues, type, k) ==
    IF k = 0 THEN 0
    ELSE C5_TypeTotal(issues, type, k - 1)
            + (IF issues[k].type = type
               THEN C5_Weight(type) * issues[k].confidence ELSE 0)

RECURSIVE C5_SumTotals(_, _)
C5_SumTotals(pen, k) ==
    IF k = 0 THEN 0 ELSE C5_SumTotals(pen, k - 1) + pen[k].total

\* C5: the score starts from 100 and loses weight[type] x confidence for
\* every issue (weight 2 for a type without a configured weight);
\* issue_penalties holds, for exactly the issue types present, the sum of
\* the penalties of the issues of that type, and the sum over the map is
\* the total subtracted for issues.
C5_IssuePenalties ==
    Returned =>
        LET issues == results.issues
            pen    == score_results.issue_penalties
        IN  /\ {pen[i].type : i \in 1..Len(pen)}
                 = {issues[i].type : i \in 1..Len(issues)}
            /\ \A i, j \in 1..Len(pen) : pen[i].type = pen[j].type => i = j
            /\ \A i \in 1..Len(pen) :
                 pen[i].total = C5_TypeTotal(issues, pen[i].type, Len(issues))
            /\ BaseScore(issues, << >>) = 100 * Scale - C5_SumTotals(pen, Len(pen))

\* two issues of one type, and an issue of a type without a configured weight
C5_Witness ==
    /\ Returned
    /\ \E i, j \in 1..Len(results.issues) :
          /\ i < j
          /\ results.issues[i].type = results.issues[j].type
          /\ results.issues[i].confidence > 0
          /\ results.issues[j].confidence > 0
    /\ \E i \in 1..Len(results.issues) :
          /\ results.issues[i].type \notin DOMAIN issue_weights
          /\ results.issues[i].confidence > 0

\* 100 - issue penalties - bias x 3 - emotion x 3 - mean(c, p, s) x 3
\*     + accuracy x 8 when the accuracy is present
C6_Expected(issues, metadata) ==
    LET acc == FactualAccuracy(metadata)
    IN  100 * Scale
          - PenaltySum(issues, Len(issues))
          - 3 * MetaGet(metadata, "bias", "overall_bias_level", 0)
          - 3 * MetaGet(metadata, "emotional_manipulation",
                        "emotional_manipulation_score", 0)
          - ( MetaGet(metadata, "linguistic_patterns", "clickbait_level", 0)
            + MetaGet(metadata, "linguistic_patterns", "propaganda_level", 0)
            + MetaGet(metadata, "linguistic_patterns", "sensationalism_level", 0) )
          + (IF acc = NoAccuracy THEN 0 ELSE 8 * acc)

C6_WithAccuracy(metadata, acc) ==
    [metadata EXCEPT !["fact_checking"].overall_factual_accuracy = acc]

\* C6: the returned score is (100 - issue penalties - bias_level x 15 x 0.2
\* - emotional score x 15 x 0.2 - mean(clickbait, propaganda,
\* sensationalism) x 15 x 0.2 + accuracy x 20 x 0.4 if the accuracy is
\* present), clamped to [0,100] and rounded to an integer; the hedging
\* level plays no part; an absent accuracy never gives a higher score than
\* a present one on otherwise identical input.
C6_MetadataAdjustments ==
    Returned =>
        LET issues   == results.issues
            metadata == results.metadata
            clamped  == Max(0, Min(100 * Scale, C6_Expected(issues, metadata)))
        IN  /\ 2 * Abs(score_results.score * Scale - clamped) <= Scale
            /\ ( /\ "fact_checking" \in DOMAIN metadata
                 /\ FactualAccuracy(metadata) = NoAccuracy )
               => \A acc \in {0, Scale \div 2, Scale} : \A up \in BOOLEAN :
                     RoundDiv(FinalScore(issues, C6_WithAccuracy(metadata, acc)),
                              Scale, up)
                       >= RoundDiv(FinalScore(issues, metadata), Scale, up)

\* an unclamped score with a bonus, pattern levels and a hedging level
C6_Witness ==
    /\ Returned
    /\ FactualAccuracy(results.metadata) > 0
    /\ PatternLevelSum(results.metadata) > 0
    /\ MetaGet(results.metadata, "linguistic_patterns", "hedging_level", 0) > 0
    /\ BiasLevel(results.metadata) > 0
    /\ Len(results.issues) > 0
    /\ BaseScore(results.issues, results.metadata) \in 1..(100 * Scale - 1)

\* a score the absent accuracy leaves below 100
C6_WitnessAbsent ==
    /\ Returned
    /\ "fact_checking" \in DOMAIN results.metadata
    /\ FactualAccuracy(results.metadata) = NoAccuracy
    /\ score_results.score \in 1..99

C7_Signals ==
    Len(results.issues)
        + (IF FactualAccuracy(results.metadata) # NoAccuracy THEN 1 ELSE 0)

\* C7: the returned confidence is min(0.95, 0.5 + (signal_count/20) x 0.45)
\* to two decimals, signal_count = number of issues + 1 if the accuracy is
\* present; it is 0.5 with no signal, never falls when an issue is added
\* and never exceeds 0.95.
C7_Confidence ==
    Returned =>
        LET c == (score_results.confidence * 100) \div Scale
            n == C7_Signals
        IN  /\ c * Scale = score_results.confidence * 100
            /\ 2 * Abs(20 * c - Min(95 * 20, 50 * 20 + 45 * n)) <= 20
            /\ n = 0 => c = 50
            /\ c <= 95
            /\ \A e \in ScoreIssues : \A up \in BOOLEAN :
                 RoundedConfidence(
                     SignalsCount(Append(results.issues, e), results.metadata), up)
                   >= score_results.confidence

\* more than 20 signals, one of them the accuracy: the cap applies
C7_Witness ==
    /\ Returned
    /\ C7_Signals > 20
    /\ FactualAccuracy(results.metadata) # NoAccuracy
    /\ score_results.confidence = Hundredths(95)

\* fewer than 20 signals, one of them the accuracy
C7_WitnessBelowCap ==
    /\ Returned
    /\ C7_Signals \in 1..19
    /\ FactualAccuracy(results.metadata) # NoAccuracy
    /\ Len(results.issues) > 0

\* the tier the thresholds 90, 75, 60, 40 give an integer score
C8_Tier(points) ==
    IF points >= 90 THEN "very high"
    ELSE IF points >= 75 THEN "high"
    ELSE IF points >= 60 THEN "moderate"
    ELSE IF points >= 40 THEN "low"
    ELSE "very low"

C8_BadgeTier(badge) ==
    CASE badge = "Highly Credible" -> "very high"
      [] badge = "Credible" -> "high"
      [] badge = "Somewhat Credible" -> "moderate"
      [] badge = "Low Credibility" -> "low"
      [] badge = "Very Low Credibility" -> "very low"

C8_Recommendation(points) ==
    IF points >= 75 THEN "generally reliable"
    ELSE IF points >= 60 THEN "verify key claims"
    ELSE IF points >= 40 THEN "approach with skepticism"
    ELSE "significant credibility issues"

\* C8: the tier the summary names is the tier of the returned integer
\* score, the one get_credibility_badge gives for it, and the
\* recommendation is the one of the returned score.
C8_SummaryTierMatchesScore ==
    Returned =>
        /\ score_results.summary.category = C8_Tier(score_results.score)
        /\ score_results.summary.category
             = C8_BadgeTier(get_credibility_badge(score_results.score * Scale))
        /\ score_results.summary.recommendation
             = C8_Recommendation(score_results.score)

C9_Total(pen, type) == pen[PenaltyIndex(pen, type)].total

\* where the first issue of `type` stands in the issue list
C9_FirstIndex(issues, type) ==
    CHOOSE i \in 1..Len(issues) :
        /\ issues[i].type = type
        /\ \A j \in 1..(i - 1) : issues[j].type # type

\* a ranks before b: larger total, or equal total and met earlier
C9_Before(a, b) ==
    LET pen == score_results.issue_penalties
    IN  \/ C9_Total(pen, a) > C9_Total(pen, b)
        \/ /\ C9_Total(pen, a) = C9_Total(pen, b)
           /\ C9_FirstIndex(results.issues, a) < C9_FirstIndex(results.issues, b)

\* C9: the major concerns are at most three issue types, those of largest
\* per-type penalty total in descending order of total, and of two types
\* of equal total the one whose first issue came earlier in the issue list
\* stands first.
C9_MajorConcerns ==
    Returned =>
        LET pen   == score_results.issue_penalties
            major == score_results.summary.major
            types == {pen[i].type : i \in 1..Len(pen)}
            named == {major[i] : i \in 1..Len(major)}
        IN  /\ Len(major) = Min(3, Cardinality(types))
            /\ named \subseteq types
            /\ \A i, j \in 1..Len(major) : i < j => C9_Before(major[i], major[j])
            /\ \A t \in types \ named : \A i \in 1..Len(major) :
                  C9_Before(major[i], t)

\* four issue types, the third and the fourth of equal total
C9_Witness ==
    /\ Returned
    /\ Len(score_results.issue_penalties) >= 4
    /\ Len(score_results.summary.major) = 3
    /\ \E t \in {score_results.issue_penalties[i].type :
                    i \in 1..Len(score_results.issue_penalties)} :
          /\ \A i \in 1..3 : score_results.summary.major[i] # t
          /\ C9_Total(score_results.issue_penalties, t)
               = C9_Total(score_results.issue_penalties,
                          score_results.summary.major[3])

---------------------------------------------------------------------------
(* Properties of _detect_political_bias (checked under SpecPolitical)      *)

PoliticalReturned == pc = "political_returned"

C10_Left == text.count["left_leaning"]
C10_Right == text.count["right_leaning"]
C10_Gap == Abs(C10_Left - C10_Right)
C10_Total == C10_Left + C10_Right

\* the fractions a/b and c/d are equal
C10_Same(x, y) == x[1] * y[2] = y[1] * x[2]

\* min(0.9, 0.5 + (|L-R| / (L+R)) x 0.5)
C10_StrongConfidence ==
    IF 10 * (C10_Total + C10_Gap) > 9 * 2 * C10_Total
    THEN <<9, 10>>
    ELSE <<C10_Total + C10_Gap, 2 * C10_Total>>

C10_Leaning ==
    IF C10_Left > 2 * C10_Right THEN "left"
    ELSE IF C10_Right > 2 * C10_Left THEN "right"
    ELSE IF 10 * C10_Gap > 3 * C10_Total
    THEN (IF C10_Left > C10_Right THEN "center-left" ELSE "center-right")
    ELSE "center"

C10_Confidence ==
    IF C10_Leaning \in {"left", "right"} THEN C10_StrongConfidence
    ELSE IF C10_Leaning = "center" THEN <<7, 10>>
    ELSE <<6, 10>>

\* C10: with L left and R right matches, L+R >= 3, _detect_political_bias
\* gives left (right) when L > 2R (R > 2L) with confidence
\* min(0.9, 0.5 + |L-R|/(L+R) x 0.5), otherwise center-left or center-right
\* (the larger side) with confidence 0.6 when |L-R|/(L+R) > 0.3, and
\* otherwise center with confidence 0.7; L=4, R=1 gives left with 0.8, and
\* the leaning is never neutral
C10_PoliticalBias ==
    (PoliticalReturned /\ C10_Total >= 3) =>
        /\ results.leaning = C10_Leaning
        /\ C10_Same(results.confidence, C10_Confidence)
        /\ results.leaning # "neutral"
        /\ (C10_Left = 4 /\ C10_Right = 1) =>
              /\ results.leaning = "left"
              /\ C10_Same(results.confidence, <<8, 10>>)

C10_Witness ==
    /\ PoliticalReturned
    /\ C10_Left = 4 /\ C10_Right = 1
    /\ results.leaning = "left"

C10_WitnessCenter ==
    /\ PoliticalReturned
    /\ C10_Left = 2 /\ C10_Right = 1
    /\ results.leaning = "center-left"

\* C11: with one or two political matches in all, the leaning is slight-left
\* (slight-right) with confidence 0.4 when the left (right) count is strictly
\* the larger, and neutral with confidence 0 when the counts are equal; with
\* no match the leaning is neutral
C11_FewMatches ==
    (PoliticalReturned /\ C10_Total <= 2) =>
        /\ C10_Left > C10_Right =>
              /\ results.leaning = "slight-left"
              /\ C10_Same(results.confidence, <<4, 10>>)
        /\ C10_Right > C10_Left =>
              /\ results.leaning = "slight-right"
              /\ C10_Same(results.confidence, <<4, 10>>)
        /\ C10_Left = C10_Right =>
              /\ results.leaning = "neutral"
              /\ C10_Same(results.confidence, <<0, 1>>)
        /\ C10_Total = 0 => results.leaning = "neutral"

C11_Witness ==
    /\ PoliticalReturned
    /\ C10_Left = 2 /\ C10_Right = 0
    /\ results.leaning = "slight-left"

C11_WitnessEqual ==
    /\ PoliticalReturned
    /\ C10_Left = 1 /\ C10_Right = 1
    /\ results.leaning = "neutral"

---------------------------------------------------------------------------
(* Properties of detect_bias (checked under SpecBias)                      *)

BiasReturned == pc = "bias_returned"

\* the leaning and its confidence, by the rules of C10 and C11
C12_Leaning ==
    IF C10_Total >= 3 THEN C10_Leaning
    ELSE IF C10_Left > C10_Right THEN "slight-left"
    ELSE IF C10_Right > C10_Left THEN "slight-right"
    ELSE "neutral"

C12_Confidence ==
    IF C10_Total >= 3 THEN C10_Confidence
    ELSE IF C10_Left # C10_Right THEN <<4, 10>>
    ELSE <<0, 1>>

C12_Matches(kind) == {<<kind, i>> : i \in 1..text.count[kind]}

\* the matches of the winning side, of both sides for center
C12_Spans ==
    IF C12_Leaning = "center"
    THEN C12_Matches("left_leaning") \cup C12_Matches("right_leaning")
    ELSE IF C12_Leaning \in {"left", "center-left", "slight-left"}
    THEN C12_Matches("left_leaning")
    ELSE C12_Matches("right_leaning")

C12_Political == SelectSeq(results.issues, LAMBDA i : i.type = "political_bias")

\* the number x of 1/Scale is the fraction q, up to the grid
C12_Is(x, q) == Abs(x * q[2] - q[1] * Scale) < q[2]

\* C12: detect_bias emits one political_bias issue when the leaning is not
\* neutral and none when it is; the issue carries the confidence of the
\* leaning and, as spans, the matches of the winning side (of both sides
\* for center); with a neutral leaning the metadata keep political_leaning
\* None and political_leaning_confidence 0
C12_PoliticalIssue ==
    BiasReturned =>
        IF C12_Leaning # "neutral"
        THEN /\ Len(C12_Political) = 1
             /\ C12_Is(C12_Political[1].confidence, C12_Confidence)
             /\ C12_Political[1].confidence =
                    results.metadata.political_leaning_confidence
             /\ results.metadata.political_leaning = C12_Leaning
             /\ Range(C12_Political[1].spans) = C12_Spans
             /\ Len(C12_Political[1].spans) = Cardinality(C12_Spans)
        ELSE /\ Len(C12_Political) = 0
             /\ results.metadata.political_leaning = None
             /\ results.metadata.political_leaning_confidence = 0

C12_Witness ==
    /\ BiasReturned
    /\ C10_Left = 2 /\ C10_Right = 2
    /\ Len(C12_Political) = 1
    /\ Len(C12_Political[1].spans) = 4

C12_WitnessNeutral ==
    /\ BiasReturned
    /\ C10_Left = 1 /\ C10_Right = 1
    /\ text.count["loaded_language"] = 1
    /\ Len(results.issues) = 1
    /\ results.metadata.political_leaning = None

---------------------------------------------------------------------------
(* Properties of _extract_claims (checked under SpecExtract)               *)

ExtractReturned == pc = "extract_returned"

\* C14: the claims _extract_claims returns are in the order of their start
\* offsets, and of any two the earlier ends at or before the start of the
\* later
C14_OrderedDisjoint ==
    ExtractReturned =>
        \A i, j \in 1..Len(results) :
            i < j => /\ results[i].start <= results[j].start
                     /\ results[i].end <= results[j].start

\* two overlapping candidates and a third after them
C14_Witness ==
    /\ ExtractReturned
    /\ Len(text.candidates) = 3
    /\ Len(results) = 2
    /\ \E i, j \in 1..3 :
          /\ i # j
          /\ LongEnough(text.candidates[i]) /\ LongEnough(text.candidates[j])
          /\ text.candidates[i].start < text.candidates[j].start
          /\ text.candidates[j].start < text.candidates[i].end

\* the candidates whose text has 10 characters or more
C15_Kept == SelectSeq(text.candidates, LAMBDA c : c.len >= 10)

\* C15: the candidates discarded before the deduplication are those whose
\* text is shorter than 10 characters; one of 10 characters or more is kept
C15_TenOrMoreKept ==
    ExtractReturned =>
        results = Deduplicate(SortByStart(C15_Kept, Len(C15_Kept)), Len(C15_Kept))

---------------------------------------------------------------------------
(* Properties of _extract_claims on a line of text (checked under          *)
(* SpecClaims)                                                             *)

ClaimsReturned == pc = "claims_returned"

C27_Overlap(a, b) == a.start < b.end /\ b.start < a.end

\* the candidates of sufficient length that are not in the returned list
C27_Dropped ==
    {c \in Range(Candidates(FindClaims(text.pieces))) : c \notin Range(results)}

\* C27: every candidate claim of sufficient length that is absent from the
\* list _extract_claims returns overlaps a claim of the returned list
C27_DroppedForOverlap ==
    ClaimsReturned =>
        \A c \in C27_Dropped : \E r \in Range(results) : C27_Overlap(c, r)

\* a candidate was dropped for a later, longer one that ends elsewhere
C27_Witness ==
    /\ ClaimsReturned
    /\ \E c \in C27_Dropped : \E r \in Range(results) :
          /\ C27_Overlap(c, r)
          /\ c.start < r.start /\ c.end < r.end

\* a candidate was dropped for an earlier one
C27_WitnessEarlier ==
    /\ ClaimsReturned
    /\ \E c \in C27_Dropped : \E r \in Range(results) :
          C27_Overlap(c, r) /\ r.start < c.start

---------------------------------------------------------------------------
(* Properties of get_highlighted_text (checked under SpecHighlight)        *)

HighlightReturned == pc = "highlight_returned"

\* the output with the span markup removed
RECURSIVE C30_Stripped(_, _)
C30_Stripped(html_parts, k) ==
    IF k = 0 THEN << >>
    ELSE C30_Stripped(html_parts, k - 1) \o html_parts[k].chars

\* C30: for a result whose issue spans lie within the text, nested or
\* overlapping ones included, the output of get_highlighted_text with the
\* span markup removed is the text: every character once, in order
C30_TextPreserved ==
    HighlightReturned =>
        C30_Stripped(results, Len(results)) = [i \in 1..text.length |-> i]

---------------------------------------------------------------------------
(* Properties of the fact checker (checked under SpecFacts)                *)

FactsReturned == pc = "facts_returned"
LocalReturned == pc = "local_returned"

C13_Database == <<Entry(SkyIsGreen, FALSE, 1)>>

\* the database holds only "the sky is green", unverified, and the text is
\* the sentence of the example
C13_Example ==
    /\ config.known_claims = C13_Database
    /\ \A k \in 1..Len(text.candidates) : text.candidates[k].words = Sentence

\* ... and the text is "The sky is green today."
C13_Shorter ==
    /\ config.known_claims = C13_Database
    /\ ~config.fact_check_tools
    /\ text.candidates = <<PlainClaim(Vocabulary)>>

C13_FalseClaims == SelectSeq(results.issues, LAMBDA i : i.type = "false_claim")

\* C13 as stated: with only "the sky is green" (unverified) in the database,
\* check_facts gives for "Scientists discovered that the sky is green
\* today." exactly one false_claim issue, of confidence 0.7 or more, and
\* exactly one source, unverified
C13_ExampleFlagged ==
    (FactsReturned /\ C13_Example) =>
        /\ Len(C13_FalseClaims) = 1
        /\ C13_FalseClaims[1].confidence >= Hundredths(70)
        /\ Len(results.sources) = 1
        /\ ~results.sources[1].verified

\* C13 as amended: for that sentence the similarity is 4/8, not above 0.7,
\* and check_facts gives one detected claim, no issue and no source; for
\* "The sky is green today." (similarity 4/5) it gives exactly one
\* false_claim issue, of confidence 0.8, and exactly one source, unverified
C13_ExampleNotMatched ==
    /\ (FactsReturned /\ C13_Example) =>
          /\ results.issues = << >>
          /\ results.sources = << >>
          /\ results.metadata.claims_detected = 1
    /\ (FactsReturned /\ C13_Shorter) =>
          /\ Len(results.issues) = 1
          /\ Len(C13_FalseClaims) = 1
          /\ C13_FalseClaims[1].confidence = Hundredths(80)
          /\ Len(results.sources) = 1
          /\ ~results.sources[1].verified

C13_Witness ==
    /\ FactsReturned
    /\ C13_Example
    /\ Len(text.candidates) = 2
    /\ results.metadata.claims_detected = 1
    /\ results.issues = << >>

C13_WitnessShorter ==
    /\ FactsReturned
    /\ C13_Shorter
    /\ Len(results.issues) = 1

C16_Words == text.candidates[1].words

\* the Jaccard similarity of the claim and entry k, 0 when both are empty
C16_Jaccard(k) ==
    LET db_words == config.known_claims[k].words
        union    == Cardinality(C16_Words \cup db_words)
    IN  IF union = 0 THEN <<0, 1>>
        ELSE <<Cardinality(C16_Words \cap db_words), union>>

C16_Matching ==
    {k \in 1..Len(config.known_claims) :
        10 * C16_Jaccard(k)[1] > 7 * C16_Jaccard(k)[2]}

\* the first of the entries of maximal similarity
C16_Chosen ==
    CHOOSE k \in C16_Matching :
        \A j \in C16_Matching :
            /\ ~Greater(C16_Jaccard(j), C16_Jaccard(k))
            /\ C10_Same(C16_Jaccard(j), C16_Jaccard(k)) => k <= j

\* C16: _check_against_local_db finds the claim exactly when an entry has a
\* Jaccard similarity above 0.7 with it, and the entry it takes is the first
\* of those of maximal similarity; for a found claim check_facts appends one
\* source, and emits a false_claim issue, whose confidence is that
\* similarity, exactly when the entry is unverified, counting the claim as
\* verified otherwise
C16_LocalLookup ==
    /\ LocalReturned =>
          /\ results.found <=> C16_Matching # {}
          /\ results.found =>
                /\ results.source_url = C16_Chosen
                /\ results.verified = config.known_claims[C16_Chosen].verified
                /\ C10_Same(results.confidence, C16_Jaccard(C16_Chosen))
    /\ (FactsReturned /\ Len(text.candidates) = 1 /\ C16_Matching # {}) =>
          /\ Len(results.sources) = 1
          /\ results.sources[1].verified = config.known_claims[C16_Chosen].verified
          /\ IF config.known_claims[C16_Chosen].verified
             THEN /\ results.issues = << >>
                  /\ results.metadata.claims_verified = 1
             ELSE /\ Len(results.issues) = 1
                  /\ results.issues[1].type = "false_claim"
                  /\ C12_Is(results.issues[1].confidence, C16_Jaccard(C16_Chosen))
                  /\ results.metadata.claims_verified = 0

\* two different entries of the same, maximal similarity
C16_Witness ==
    /\ LocalReturned
    /\ results.found
    /\ Len(config.known_claims) = 2
    /\ Cardinality(C16_Matching) = 2
    /\ C10_Same(C16_Jaccard(1), C16_Jaccard(2))
    /\ config.known_claims[1].words # config.known_claims[2].words
    /\ results.source_url = 1

C16_WitnessFacts ==
    /\ FactsReturned
    /\ Len(config.known_claims) = 2
    /\ C16_Matching = {2}
    /\ Len(results.issues) = 1
    /\ results.issues[1].confidence = Hundredths(75)

C17_Claim == text.candidates[1]

\* the claim has a number, and no citation pattern occurs inside it or in
\* the 100 characters after it
C17_Uncited ==
    /\ C17_Claim.number
    /\ ~C17_Claim.cited_within
    /\ ~(C17_Claim.cited_after \in 1..100)

\* C17: for a claim the local database does not match, with the external
\* service configured and reporting no match, check_facts emits one
\* uncited_statistic issue (confidence 0.7, the claim as its span) exactly
\* when the claim is an uncited statistic; in every other case without a
\* match it emits no issue and no source
C17_UncitedStatistic ==
    (/\ FactsReturned
     /\ Len(text.candidates) = 1
     /\ C16_Matching = {}
     /\ ~(config.fact_check_tools /\ C17_Claim.external.found)) =>
        /\ results.sources = << >>
        /\ IF config.fact_check_tools /\ C17_Uncited
           THEN /\ Len(results.issues) = 1
                /\ results.issues[1].type = "uncited_statistic"
                /\ results.issues[1].confidence = Hundredths(70)
                /\ results.issues[1].spans = << <<"claim", 1>> >>
           ELSE results.issues = << >>

\* a statistic whose only citation ends just outside the window
C17_Witness ==
    /\ FactsReturned
    /\ config.fact_check_tools
    /\ C16_Matching = {}
    /\ C17_Claim.number
    /\ C17_Claim.cited_after = 101
    /\ Len(results.issues) = 1
    /\ results.issues[1].type = "uncited_statistic"

\* a statistic without citation, and no external service
C17_WitnessNoService ==
    /\ FactsReturned
    /\ ~config.fact_check_tools
    /\ C16_Matching = {}
    /\ C17_Uncited
    /\ results.issues = << >>

C18_Accuracy == results.metadata.overall_factual_accuracy
C18_Detected == results.metadata.claims_detected
C18_Verified == results.metadata.claims_verified
C18_Refuted == results.metadata.claims_refuted

\* x, a number of 1/Scale, is the fraction num/den rounded to two decimals
\* (either way at a tie)
RoundsTo(x, num, den) ==
    \E h \in 0..100 :
        /\ x = Hundredths(h)
        /\ 2 * Abs(h * den - num * 100) <= den

\* C18: after check_facts the accuracy is None exactly when no claim was
\* detected, and otherwise claims_verified / claims_detected rounded to two
\* decimals; it lies in [0,1], and with claims that are neither verified
\* nor refuted it is lower than over the verified and refuted claims alone
C18_FactualAccuracy ==
    FactsReturned =>
        /\ C18_Accuracy = NoAccuracy <=> C18_Detected = 0
        /\ C18_Detected = Len(ExtractClaims(text.candidates))
        /\ C18_Detected > 0 =>
              /\ RoundsTo(C18_Accuracy, C18_Verified, C18_Detected)
              /\ C18_Accuracy >= 0 /\ C18_Accuracy <= Scale
              /\ (C18_Detected > C18_Verified + C18_Refuted /\ C18_Verified > 0) =>
                    \A x \in 0..Scale :
                        RoundsTo(x, C18_Verified, C18_Verified + C18_Refuted)
                            => C18_Accuracy < x

\* one verified, one refuted and one unknown claim: a third
C18_Witness ==
    /\ FactsReturned
    /\ C18_Detected = 3
    /\ C18_Verified = 1
    /\ C18_Refuted = 1
    /\ C18_Accuracy = Hundredths(33)

C18_WitnessNone ==
    /\ FactsReturned
    /\ text.candidates = << >>
    /\ C18_Accuracy = NoAccuracy

C28_Issues(types) == SelectSeq(results.issues, LAMBDA i : i.type \in types)

\* the issues that the k-th detected claim contributed
C28_IssuesOf(k) ==
    SelectSeq(results.issues, LAMBDA i : i.spans = << <<"claim", k>> >>)

\* C28: after check_facts, claims_verified + claims_refuted is at most
\* claims_detected, there are claims_verified + claims_refuted sources,
\* claims_refuted issues of type false_claim or external_fact_check, and
\* every issue is the only one of a detected claim
C28_Counts ==
    FactsReturned =>
        /\ C18_Verified + C18_Refuted <= C18_Detected
        /\ Len(results.sources) = C18_Verified + C18_Refuted
        /\ Len(C28_Issues({"false_claim", "external_fact_check"})) = C18_Refuted
        /\ \A k \in 1..C18_Detected : Len(C28_IssuesOf(k)) <= 1
        /\ \A i \in 1..Len(results.issues) :
              \E k \in 1..C18_Detected : results.issues[i].spans = << <<"claim", k>> >>

\* a claim the database refutes, one the external service supports and an
\* uncited statistic
C28_Witness ==
    /\ FactsReturned
    /\ C18_Detected = 3
    /\ C18_Verified = 1
    /\ C18_Refuted = 1
    /\ Len(results.sources) = 2
    /\ Len(C28_Issues({"false_claim"})) = 1
    /\ Len(C28_Issues({"uncited_statistic"})) = 1
    /\ \E k \in 1..2 : results.sources[k].verified

\* three refuted claims, two of them by the external service
C28_WitnessRefuted ==
    /\ FactsReturned
    /\ C18_Detected = 3
    /\ C18_Refuted = 3
    /\ Len(C28_Issues({"external_fact_check"})) = 2
    /\ Len(results.sources) = 3

\* the claims _extract_claims returns for the text
C29_Claims == ExtractClaims(text.candidates)

\* the local database has no match for the k-th claim
C29_Unmatched(k) ==
    ~CheckAgainstLocalDb(C29_Claims[k].words, config.known_claims).found

\* C29: without an external fact-check service, a claim the local database
\* does not match gives no issue and no source, and no issue is an
\* uncited_statistic; the claim is counted in claims_detected
C29_UnmatchedUnflagged ==
    (FactsReturned /\ ~config.fact_check_tools) =>
        /\ C18_Detected = Len(C29_Claims)
        /\ \A i \in 1..Len(results.issues) :
              results.issues[i].type # "uncited_statistic"
        /\ \A k \in 1..Len(C29_Claims) :
              C29_Unmatched(k) =>
                 /\ \A i \in 1..Len(results.issues) :
                       results.issues[i].spans # << <<"claim", k>> >>
                 /\ \A j \in 1..Len(results.sources) :
                       results.sources[j].claim # <<"claim", k>>

\* an uncited statistic the database does not match, between two claims
\* the database refutes
C29_Witness ==
    /\ FactsReturned
    /\ ~config.fact_check_tools
    /\ Len(C29_Claims) = 3
    /\ C29_Unmatched(2)
    /\ C29_Claims[2].number /\ ~HasCitation(C29_Claims[2])
    /\ C18_Detected = 3
    /\ C18_Refuted = 2
    /\ Len(results.issues) = 2

\* a single claim the external service would dispute
C29_WitnessDisputed ==
    /\ FactsReturned
    /\ ~config.fact_check_tools
    /\ Len(C29_Claims) = 1
    /\ C29_Unmatched(1)
    /\ C29_Claims[1].external = Disputed
    /\ C18_Detected = 1
    /\ results.issues = << >>
    /\ results.sources = << >>

---------------------------------------------------------------------------
(* Properties of detect_manipulation (checked under SpecEmotion)           *)

ManipulationReturned == pc = "manipulation_returned"

\* the emotional_trigger issues of the result that name category e
C19_IssuesOf(e) ==
    { i \in 1..Len(results.issues) :
        /\ results.issues[i].type = "emotional_trigger"
        /\ results.issues[i].description = e }

C19_Triggers ==
    { i \in 1..Len(results.issues) : results.issues[i].type = "emotional_trigger" }

C19_Matched == { e \in Range(EmotionKinds) : text.count[e] > 0 }

\* where the trigger table lists category e
C19_Position(e) == CHOOSE i \in 1..Len(EmotionKinds) : EmotionKinds[i] = e

C19_Dominant == results.metadata.dominant_emotion

\* C19: detect_manipulation emits exactly one emotional_trigger issue for
\* each emotion category with a match, its spans all the matches of the
\* category, and none for a category without; dominant_emotion is the
\* category of the highest match count that the trigger table lists first,
\* and None when no category matched
C19_TriggersAndDominant ==
    ManipulationReturned =>
        /\ \A e \in Range(EmotionKinds) :
              /\ Cardinality(C19_IssuesOf(e)) = IF e \in C19_Matched THEN 1 ELSE 0
              /\ \A i \in C19_IssuesOf(e) :
                    /\ Len(results.issues[i].spans) = text.count[e]
                    /\ \A m \in 1..text.count[e] :
                          results.issues[i].spans[m] = <<e, m>>
        /\ Cardinality(C19_Triggers) = Cardinality(C19_Matched)
        /\ IF C19_Matched = {}
           THEN C19_Dominant = None
           ELSE /\ C19_Dominant \in C19_Matched
                /\ \A e \in C19_Matched :
                      /\ text.count[e] <= text.count[C19_Dominant]
                      /\ C19_Position(e) < C19_Position(C19_Dominant)
                            => text.count[e] < text.count[C19_Dominant]

\* joy and sadness share the highest count and fear, listed before both,
\* has fewer matches: joy is dominant
C19_Witness ==
    /\ ManipulationReturned
    /\ text.count["fear"] = 1
    /\ text.count["anger"] = 0
    /\ text.count["joy"] = 2
    /\ text.count["sadness"] = 2
    /\ C19_Dominant = "joy"
    /\ Cardinality(C19_Triggers) = 3

C19_WitnessNone ==
    /\ ManipulationReturned
    /\ C19_Matched = {}
    /\ text.count["urgency_patterns"] = 1
    /\ text.count["fear_patterns"] = 1
    /\ C19_Dominant = None
    /\ Len(results.issues) = 2

C20_Intensity == results.metadata.emotional_intensity
C20_Types == results.metadata.emotion_types_detected

\* the matches of the emotion categories' triggers
C20_TriggerMatches ==
    text.count["fear"] + text.count["anger"] + text.count["joy"]
        + text.count["sadness"]

C20_Urgency == text.count["urgency_patterns"] > 0
C20_FearPhrase == text.count["fear_patterns"] > 0

\* the emotion categories detected: those with a trigger match, and fear
\* when a fear phrase matched
C20_Categories ==
    C19_Matched \cup (IF C20_FearPhrase THEN {"fear"} ELSE {})

\* min(1.0, (trigger_density/5.0) x 0.7 + (variety/4.0) x 0.3) as a fraction;
\* the density of a text without words is 0
C20_Value(variety) ==
    LET words == text.words
        den == IF words > 0 THEN 40 * words ELSE 40
        num == IF words > 0 THEN 560 * C20_TriggerMatches + 3 * variety * words
               ELSE 3 * variety
    IN  <<Min(num, den), den>>

\* C20, as stated: the intensity is the capped sum with the number of
\* distinct detected emotion categories as the variety
C20_VarietyOfCategories ==
    ManipulationReturned =>
        /\ RoundsTo(C20_Intensity, C20_Value(Cardinality(C20_Categories))[1],
                    C20_Value(Cardinality(C20_Categories))[2])
        /\ C20_Intensity >= 0 /\ C20_Intensity <= Scale

\* C20: emotional_intensity is min(1.0, (trigger_density/5.0) x 0.7 +
\* (variety/4.0) x 0.3) rounded to two decimals, trigger_density the trigger
\* matches of the emotion categories per 100 words and variety the number
\* of entries of emotion_types_detected: the detected emotion categories and
\* "urgency" when an urgency phrase matched; the value lies in [0,1]
C20_VarietyOfTypes ==
    ManipulationReturned =>
        /\ Len(C20_Types) =
              Cardinality(C20_Categories) + (IF C20_Urgency THEN 1 ELSE 0)
        /\ RoundsTo(C20_Intensity, C20_Value(Len(C20_Types))[1],
                    C20_Value(Len(C20_Types))[2])
        /\ C20_Intensity >= 0 /\ C20_Intensity <= Scale

\* an urgency phrase and nothing else: 0.075, rounded
C20_Witness ==
    /\ ManipulationReturned
    /\ C20_Categories = {}
    /\ C20_Urgency
    /\ C20_Types = <<"urgency">>
    /\ C20_Intensity \in {Hundredths(7), Hundredths(8)}

\* enough triggers for the cap: two in twenty words
C20_WitnessCapped ==
    /\ ManipulationReturned
    /\ C20_TriggerMatches = 2
    /\ text.words = 20
    /\ C20_Intensity = Scale

---------------------------------------------------------------------------
(* Properties of analyze_patterns (checked under SpecPatterns)             *)

PatternsReturned == pc = "patterns_returned"

C21_Propaganda ==
    SelectSeq(results.issues, LAMBDA i : i.type = "propaganda_technique")

C21_Matched == SelectSeq(TechniqueKinds, LAMBDA t : text.count[t] > 0)

\* C21: analyze_patterns emits one propaganda_technique issue for every
\* technique with a match, and the spans of that issue are exactly the
\* matches of that technique's patterns
C21_TechniqueSpans ==
    PatternsReturned =>
        /\ Len(C21_Propaganda) = Len(C21_Matched)
        /\ \A i \in 1..Len(C21_Matched) :
              /\ C21_Propaganda[i].description = C21_Matched[i]
              /\ Len(C21_Propaganda[i].spans) = text.count[C21_Matched[i]]
              /\ \A m \in 1..Len(C21_Propaganda[i].spans) :
                    C21_Propaganda[i].spans[m] = <<C21_Matched[i], m>>

---------------------------------------------------------------------------
(* Properties of repeated calls (checked under SpecRepeat)                 *)

C22_WitnessScore ==
    /\ pc = "repeat_calculate_score"
    /\ Len(results) = 2
    /\ results[2].score < 100
    /\ results[1].issue_penalties # << >>

---------------------------------------------------------------------------
(* Properties of the level metrics (checked under SpecLevels)              *)

C23_BiasLevels == <<"overall_bias_level">>
C23_EmotionLevels == <<"emotional_manipulation_score", "emotional_intensity">>
C23_PatternLevels ==
    <<"clickbait_level", "propaganda_level", "sensationalism_level",
      "hedging_level">>

\* no metric of `levels` is lower in `more` than in `less`
C23_NotLower(levels, less, more) ==
    \A i \in 1..Len(levels) : more[levels[i]] >= less[levels[i]]

\* C23: for a fixed word count, doubling the occurrences of a phrase never
\* decreases a level metric: the detector, called on the text with twice
\* the matches of any one kind, round() taking at a tie the direction it
\* took in the call that returned, gives no lower level
C23_Monotone ==
    \A k \in Range(MatchKinds) : \A up \in BOOLEAN :
        text.count[k] > 0 =>
            /\ (BiasReturned /\ results = DetectBias(text, up)) =>
                  C23_NotLower(C23_BiasLevels, results.metadata,
                               DetectBias(Doubled(text, k), up).metadata)
            /\ (ManipulationReturned /\ results = DetectManipulation(text, up)) =>
                  C23_NotLower(C23_EmotionLevels, results.metadata,
                               DetectManipulation(Doubled(text, k), up).metadata)
            /\ PatternsReturned =>
                  C23_NotLower(C23_PatternLevels, results.metadata,
                               AnalyzePatterns(Doubled(text, k)).metadata)

\* one hedging phrase in 200 words: 0.1, and 0.2 with two
C23_Witness ==
    /\ PatternsReturned
    /\ text.count["hedging"] = 1
    /\ text.words = 200
    /\ results.metadata.hedging_level = Hundredths(10)
    /\ AnalyzePatterns(Doubled(text, "hedging")).metadata.hedging_level
          = Hundredths(20)

\* three loaded phrases in 200 words: 0.3, and 0.6 with six
C23_WitnessBias ==
    /\ BiasReturned
    /\ text.count["loaded_language"] = 3
    /\ Len(results.issues) = 3
    /\ text.words = 200
    /\ results.metadata.overall_bias_level = Hundredths(30)

\* two fear triggers in 200 words
C23_WitnessEmotion ==
    /\ ManipulationReturned
    /\ text.count["fear"] = 2
    /\ text.words = 200
    /\ results.metadata.emotional_intensity > 0
    /\ results.metadata.emotional_intensity < Scale

---------------------------------------------------------------------------
(* Properties of the spans (checked under SpecLocated)                     *)

\* C24: for every issue in the result of analyze_text, each span
\* (start, end) satisfies 0 <= start <= end <= len(text), and the issue's
\* confidence lies in [0,1]
C24_SpansAndConfidence ==
    pc = "done" =>
        \A i \in 1..Len(results.issues) :
            /\ results.issues[i].confidence >= 0
            /\ results.issues[i].confidence <= Scale
            /\ \A m \in 1..Len(results.issues[i].spans) :
                  LET span == results.issues[i].spans[m]
                  IN  /\ 0 <= span[1]
                      /\ span[1] <= span[2]
                      /\ span[2] <= text.length

\* a political issue with the spans of two matches, one up to the end of
\* the text
C24_Witness ==
    /\ pc = "done"
    /\ \E i \in 1..Len(results.issues) :
          /\ results.issues[i].type = "political_bias"
          /\ Len(results.issues[i].spans) = 2
          /\ results.issues[i].spans[2][2] = text.length

\* a false claim spanning the whole text
C24_WitnessClaim ==
    /\ pc = "done"
    /\ \E i \in 1..Len(results.issues) :
          /\ results.issues[i].type = "false_claim"
          /\ results.issues[i].spans = << <<0, text.length>> >>

---------------------------------------------------------------------------
(* Properties of analyze_url (checked under SpecUrl)                       *)

UrlReturned == pc = "url_returned"

C25_Malformed == text.scheme = "" \/ text.netloc = ""
C25_FetchFailed == text.response # "ok"
C25_AnalyzeTextInvoked == score_results # << >>

\* C25: when the URL is malformed or fetching the page fails, analyze_text
\* is never invoked and the result carries an error field and
\* credibility_score = 0; analyze_text is invoked only after a successful
\* fetch and text extraction
C25_ErrorResult ==
    UrlReturned =>
        /\ (C25_Malformed \/ C25_FetchFailed) =>
              /\ ~C25_AnalyzeTextInvoked
              /\ "error" \in DOMAIN results
              /\ results.credibility_score = 0
        /\ C25_AnalyzeTextInvoked =>
              /\ ~C25_Malformed
              /\ ~C25_FetchFailed
              /\ text.article \/ text.body
              /\ "error" \notin DOMAIN results

\* a URL without a host, whose fetch would succeed
C25_Witness ==
    /\ UrlReturned
    /\ text.scheme = "https"
    /\ text.netloc = ""
    /\ text.response = "ok"
    /\ text.body
    /\ results = InvalidUrlResult

\* a well-formed URL whose fetch times out
C25_WitnessFetch ==
    /\ UrlReturned
    /\ ~C25_Malformed
    /\ text.response = "timeout"
    /\ "error" \in DOMAIN results
    /\ "url" \in DOMAIN results

\* a page fetched and analysed
C25_WitnessAnalysed ==
    /\ UrlReturned
    /\ C25_AnalyzeTextInvoked
    /\ results.issues # << >>

---------------------------------------------------------------------------
(* Properties of concurrent calls (checked under SpecConcurrent)           *)

\* what analyze_text returns for the text when it runs alone
C26_Alone(txt) ==
    LET merged == RunDetectors(txt, NoOptions, config.round_half_up)
    IN  WithScore(merged, CalculateScore(merged, config.round_half_up,
                                         config.round_half_up))

\* C26: concurrent analyze_text calls on one ContentAnalyzer, in any
\* interleaving, each return what they would return alone, and the
\* tables, weights, factors and claims database stay as loaded
C26_Isolated ==
    /\ config.tables = LoadedTables
    /\ \A call \in Calls :
          pc[call] = "done" => results[call] = C26_Alone(text[call])

\* a call on a text with a refuted claim finished while a call on another
\* text is between two detectors
C26_Witness ==
    /\ pc[1] = "done"
    /\ pc[2] = "check_facts"
    /\ text[1] # text[2]
    /\ results[1].sources # << >>
    /\ results[2].issues # << >>

\* both calls finished
C26_WitnessBoth ==
    /\ \A call \in Calls : pc[call] = "done"
    /\ text[1] # text[2]
    /\ results[1] # results[2]

---------------------------------------------------------------------------
(* Properties of analyze_text (checked under Spec)                         *)

Done == pc = "done"
Finished == pc \in {"done", "raised"}

\* a flag counts as true when the options do not give it
C4_Enabled(flag) ==
    \/ ~options.given
    \/ flag \notin DOMAIN options.flags
    \/ options.flags[flag]

C2_Levels ==
    << <<"bias", "overall_bias_level">>,
       <<"emotional_manipulation", "emotional_manipulation_score">>,
       <<"emotional_manipulation", "emotional_intensity">>,
       <<"linguistic_patterns", "clickbait_level">>,
       <<"linguistic_patterns", "propaganda_level">>,
       <<"linguistic_patterns", "sensationalism_level">>,
       <<"linguistic_patterns", "hedging_level">> >>

\* C2: a text of zero words, analysed with all detectors enabled, raises no
\* error and gives no issues, no sources, every level 0, no factual
\* accuracy, credibility score 100 and confidence 0.5
C2_EmptyText ==
    (Finished /\ WordCount(text) = 0 /\ \A f \in Flags : C4_Enabled(f)) =>
        /\ Done
        /\ results.issues = << >>
        /\ results.sources = << >>
        /\ \A i \in 1..Len(C2_Levels) :
              results.metadata[C2_Levels[i][1]][C2_Levels[i][2]] = 0
        /\ results.metadata["fact_checking"].overall_factual_accuracy = NoAccuracy
        /\ results.credibility_score = 100
        /\ results.confidence = Hundredths(50)

C2_Witness ==
    /\ Done
    /\ WordCount(text) = 0
    /\ options = NoOptions
    /\ results.credibility_score = 100

C3_Types ==
    << {"loaded_language", "generalization", "exaggeration",
        "subjective_language", "political_bias"},
       {"emotional_trigger", "urgency_manipulation", "fear_manipulation",
        "typography_manipulation"},
       {"false_claim", "external_fact_check", "uncited_statistic"},
       {"clickbait", "propaganda_technique", "sensationalist_language",
        "excessive_hedging", "excessive_passive_voice"} >>

C3_Keys ==
    <<"bias", "emotional_manipulation", "fact_checking", "linguistic_patterns">>

\* the detector an issue comes from, 1 (bias) to 4 (patterns)
C3_Rank(issue) == CHOOSE d \in 1..4 : issue.type \in C3_Types[d]

\* what each detector produces for the text
C3_Produced ==
    << DetectBias(text, FALSE).issues, DetectManipulation(text, FALSE).issues,
       CheckFacts(text, FALSE).issues, AnalyzePatterns(text).issues >>

C3_Block(produced, d) ==
    IF C3_Keys[d] \in DOMAIN results.metadata THEN produced[d] ELSE << >>

\* C3: the issues of the result are the bias detector's, then the emotion
\* analyzer's, then the fact checker's, then the pattern analyzer's, each
\* block in the order its detector produced it, and no issue of a later
\* detector precedes one of an earlier detector
C3_IssueOrder ==
    Done =>
        /\ LET produced == C3_Produced
           IN  results.issues =
                  C3_Block(produced, 1) \o C3_Block(produced, 2)
                      \o C3_Block(produced, 3) \o C3_Block(produced, 4)
        /\ \A i, j \in 1..Len(results.issues) :
              i < j => C3_Rank(results.issues[i]) <= C3_Rank(results.issues[j])

C3_Witness ==
    /\ Done
    /\ Len(results.issues) >= 2
    /\ C3_Rank(results.issues[1]) < C3_Rank(results.issues[Len(results.issues)])

C4_Flags ==
    <<"analyze_bias", "detect_emotional_manipulation", "check_facts",
      "analyze_linguistic_patterns">>

\* the issues of the result that come from detector d
C4_IssuesOf(d) == SelectSeq(results.issues, LAMBDA issue : C3_Rank(issue) = d)

\* the metadata detector d can produce for the text
C4_Metadata(d) ==
    IF d = 1 THEN {DetectBias(text, up).metadata : up \in BOOLEAN}
    ELSE IF d = 2 THEN {DetectManipulation(text, up).metadata : up \in BOOLEAN}
    ELSE IF d = 3 THEN {CheckFacts(text, up).metadata : up \in BOOLEAN}
    ELSE {AnalyzePatterns(text).metadata}

\* C4: a flag the options do not give counts as true; a detector whose flag
\* is false contributes no issue, no metadata entry and no source, and the
\* contributions of the other detectors are what they are for the text
C4_Flagged ==
    Done =>
        /\ LET produced == C3_Produced
           IN  \A d \in 1..4 :
              IF C4_Enabled(C4_Flags[d])
              THEN /\ C3_Keys[d] \in DOMAIN results.metadata
                   /\ results.metadata[C3_Keys[d]] \in C4_Metadata(d)
                   /\ C4_IssuesOf(d) = produced[d]
              ELSE /\ C3_Keys[d] \notin DOMAIN results.metadata
                   /\ C4_IssuesOf(d) = << >>
        /\ results.sources =
              IF C4_Enabled("check_facts")
              THEN CheckFacts(text, FALSE).sources ELSE << >>

\* a dictionary that switches the bias detector off and gives no other flag,
\* for a text in which the bias detector and another detector find something
C4_Witness ==
    /\ Done
    /\ options = OptionsDict("analyze_bias" :> FALSE)
    /\ C3_Produced[1] # << >>
    /\ results.issues # << >>
    /\ "bias" \notin DOMAIN results.metadata

====
